---- MODULE Spec2Model ----
(***************************************************************************)
(* Model of the WebSocket hub of the backend:                              *)
(*   - ConnectionManager (ws/connections.rs): the registry of per-session  *)
(*     tokio broadcast channels and the per-connection subscription sets;  *)
(*   - handle_socket (ws/mod.rs): the per-connection command loop, its     *)
(*     sender task (mpsc queue -> WebSocket) and the forwarding task it    *)
(*     spawns for every Subscribe command;                                 *)
(*   - an external producer that calls broadcast / get_session_sender.     *)
(* Every hub method runs under the RwLock of ConnectionManager, so each    *)
(* one is a single atomic step.  The await points of the tasks (recv on a  *)
(* broadcast receiver, send into the mpsc queue, write to the transport)   *)
(* are separate steps.                                                     *)
(***************************************************************************)
EXTENDS Integers, Sequences, FiniteSets, TLC

\* ------------------------------------------------------------------ bounds
\* Capacity of a session's broadcast channel.  The source sets 256
\* (connections.rs:9); the model scales it down so that lagging is reachable.
CHANNEL_CAPACITY == 1
\* Capacity of a connection's outbound mpsc queue.  The source sets 256
\* (mod.rs:42); scaled down so that a full queue is reachable.
OUTBOUND_CAPACITY == 2
\* Number of publishes (broadcast, Cancel, producer send) in one behaviour.
MaxPublish == 2
\* Number of client frames handled in one behaviour of Spec (all connections).
MaxFrames == 2
\* Number of broadcast channels that exist at the same time.
MaxChannels == 2
\* Number of subscribe and publish calls the callers of SpecHub make in all,
\* and of client frames and publishes in a behaviour of SpecMux.
MaxCalls == 3

Conns == {"c1", "c2"}
Sessions == {"s1"}
Streams == {"stdout"}
ChanIds == 1..MaxChannels

VARIABLES
    session_channels,          \* session id -> channel id (the Sender kept in the map)
    connection_subscriptions,  \* connection id -> set of session ids
    chan,                      \* channel id -> state of that broadcast channel
    prodSenders,               \* channel ids of the Sender clones the producer holds
    tasks,                     \* connection -> sequence of its forwarding tasks
    outq,                      \* connection -> contents of its mpsc queue (tx -> ws_rx)
    writing,                   \* connection -> envelope its sender task took and is writing
    senderState,               \* connection -> state of its sender task
    pendingAck,                \* connection -> envelope the command loop is sending (tx.send)
    connState,                 \* connection -> "idle" | "open" | "closing" | "closed"
    frames,                    \* number of inbound frames handled so far, the last one included
    delivered,                 \* connection -> envelopes written to its WebSocket
    published,                 \* log of every publish call, in call order
    lock,                      \* guards of the hub's RwLock that are held
    waiters,                   \* calls queued for a guard, the oldest first
    seen                       \* guard holder -> the registry as it was when the guard was granted

vars == <<session_channels, connection_subscriptions, chan, prodSenders, tasks,
          outq, writing, senderState, pendingAck, connState, frames, delivered,
          published, lock, waiters, seen>>

\* The RwLock of the hub: the guards held, the queue of waiting calls and what
\* each holder found behind its guard.
lockVars == <<lock, waiters, seen>>

\* ------------------------------------------------- wire codec (messages.rs)
\* The variants of the two message enums, by their Rust names.
ClientVariants == {"Subscribe", "Unsubscribe", "Cancel", "Ping"}
ServerVariants == {"Subscribed", "Unsubscribed", "Output", "Status", "Error", "Pong"}

\* The strings the codec handles and their characters.
KnownStrings ==
    ClientVariants \cup ServerVariants \cup
    {"subscribe", "unsubscribe", "cancel", "ping",
     "subscribed", "unsubscribed", "output", "status", "error", "pong"}
Spell(str) ==
    CASE str = "Subscribe"    -> <<"S","u","b","s","c","r","i","b","e">>
      [] str = "Unsubscribe"  -> <<"U","n","s","u","b","s","c","r","i","b","e">>
      [] str = "Cancel"       -> <<"C","a","n","c","e","l">>
      [] str = "Ping"         -> <<"P","i","n","g">>
      [] str = "Subscribed"   -> <<"S","u","b","s","c","r","i","b","e","d">>
      [] str = "Unsubscribed" -> <<"U","n","s","u","b","s","c","r","i","b","e","d">>
      [] str = "Output"       -> <<"O","u","t","p","u","t">>
      [] str = "Status"       -> <<"S","t","a","t","u","s">>
      [] str = "Error"        -> <<"E","r","r","o","r">>
      [] str = "Pong"         -> <<"P","o","n","g">>
      [] str = "subscribe"    -> <<"s","u","b","s","c","r","i","b","e">>
      [] str = "unsubscribe"  -> <<"u","n","s","u","b","s","c","r","i","b","e">>
      [] str = "cancel"       -> <<"c","a","n","c","e","l">>
      [] str = "ping"         -> <<"p","i","n","g">>
      [] str = "subscribed"   -> <<"s","u","b","s","c","r","i","b","e","d">>
      [] str = "unsubscribed" -> <<"u","n","s","u","b","s","c","r","i","b","e","d">>
      [] str = "output"       -> <<"o","u","t","p","u","t">>
      [] str = "status"       -> <<"s","t","a","t","u","s">>
      [] str = "error"        -> <<"e","r","r","o","r">>
      [] str = "pong"         -> <<"p","o","n","g">>
Unspell(chars) == CHOOSE str \in KnownStrings : Spell(str) = chars

UpperCase == <<"A","B","C","D","E","F","G","H","I","J","K","L","M",
               "N","O","P","Q","R","S","T","U","V","W","X","Y","Z">>
LowerCase == <<"a","b","c","d","e","f","g","h","i","j","k","l","m",
               "n","o","p","q","r","s","t","u","v","w","x","y","z">>
IsUpper(ch) == \E k \in DOMAIN UpperCase : UpperCase[k] = ch
ToLower(ch) ==
    IF IsUpper(ch) THEN LowerCase[CHOOSE k \in DOMAIN UpperCase : UpperCase[k] = ch] ELSE ch

\* Mutant of SnakeCase: the variant name is used as the tag unchanged.
SnakeCaseKeepCase(name) == name

\* rename_all = "snake_case" applied to a variant name: every upper-case
\* letter but the first is preceded by '_', and every letter is lower-cased.
RECURSIVE SnakeFrom(_, _)
SnakeFrom(name, i) ==
    IF i > Len(name) THEN <<>>
    ELSE (IF i > 1 /\ IsUpper(name[i]) THEN <<"_">> ELSE <<>>)
             \o <<ToLower(name[i])>> \o SnakeFrom(name, i + 1)
SnakeCase(name) == SnakeFrom(name, 1)

\* The value of the "type" field of each variant (tag = "type").
TagOf(variant) == Unspell(SnakeCase(Spell(variant)))
ClientTag == [v \in ClientVariants |-> TagOf(v)]
ServerTag == [v \in ServerVariants |-> TagOf(v)]

\* The fields of each ClientMessage variant.
ClientFields(v) == IF v = "Ping" THEN {} ELSE {"session_id"}

\* The Uuids a client can name in a frame: the sessions of Sessions and one
\* Uuid more, which no producer publishes to.
WireSessions == Sessions \cup {"s2"}

\* The text of a Uuid is a sequence of characters.  A Uuid is written as its
\* hyphenated lower-case text (8-4-4-4-12 hexadecimal digits).
HexDigits ==
    {"0","1","2","3","4","5","6","7","8","9",
     "a","b","c","d","e","f","A","B","C","D","E","F"}
UuidHex(u) == [i \in 1..32 |-> IF i < 32 THEN "0" ELSE IF u = "s1" THEN "1" ELSE "2"]
Hyphenate(h) ==
    SubSeq(h, 1, 8) \o <<"-">> \o SubSeq(h, 9, 12) \o <<"-">> \o SubSeq(h, 13, 16)
        \o <<"-">> \o SubSeq(h, 17, 20) \o <<"-">> \o SubSeq(h, 21, 32)
UuidText(u) == Hyphenate(UuidHex(u))
UrnPrefix == <<"u","r","n",":","u","u","i","d",":">>

\* Uuid::parse_str: the simple form (32 digits), the hyphenated form, the
\* hyphenated form in braces and the hyphenated form after "urn:uuid:" are
\* read, with digits of either case; the result is the 32 digits in lower
\* case, or <<>> for text that is none of these.
Unhyphenate(t) ==
    IF Len(t) = 36 /\ \A i \in {9, 14, 19, 24} : t[i] = "-"
    THEN SubSeq(t, 1, 8) \o SubSeq(t, 10, 13) \o SubSeq(t, 15, 18) \o SubSeq(t, 20, 23)
             \o SubSeq(t, 25, 36)
    ELSE <<>>
UuidDigits(t) ==
    LET d == CASE Len(t) = 32 -> t
               [] Len(t) = 36 -> Unhyphenate(t)
               [] Len(t) = 38 /\ t[1] = "{" /\ t[38] = "}" -> Unhyphenate(SubSeq(t, 2, 37))
               [] Len(t) = 45 /\ SubSeq(t, 1, 9) = UrnPrefix -> Unhyphenate(SubSeq(t, 10, 45))
               [] OTHER -> <<>>
    IN  IF Len(d) = 32 /\ \A i \in 1..32 : d[i] \in HexDigits
        THEN [i \in 1..32 |-> ToLower(d[i])]
        ELSE <<>>

\* The Uuid a text stands for; the Uuids a client names are those of
\* WireSessions (text that parses to another Uuid is not among the frames).
NoUuid == "-"
ParseUuid(text) ==
    IF \E u \in WireSessions : UuidHex(u) = UuidDigits(text)
    THEN CHOOSE u \in WireSessions : UuidHex(u) = UuidDigits(text)
    ELSE NoUuid

\* The client commands, and the failure of serde_json::from_str.
Commands ==
    {[variant |-> "Ping"]} \cup
    {[variant |-> v, session_id |-> s] : v \in ClientVariants \ {"Ping"}, s \in WireSessions}
Invalid == [variant |-> "Invalid"]

\* serde_json::to_string of a ClientMessage: one object with the tag and the
\* fields of the variant.
Encode(cmd) ==
    [k \in {"type"} \cup ClientFields(cmd.variant) |->
        IF k = "type" THEN ClientTag[cmd.variant] ELSE UuidText(cmd[k])]

\* serde_json::from_str::<ClientMessage> of an object: the tag selects the
\* variant, every field of the variant must be present and parse, any other
\* field is ignored.
Decode(w) ==
    IF "type" \notin DOMAIN w THEN Invalid
    ELSE LET vs == {v \in ClientVariants : ClientTag[v] = w["type"]}
         IN  IF vs = {} THEN Invalid
             ELSE LET v == CHOOSE x \in vs : TRUE
                  IN  IF \E k \in ClientFields(v) :
                            k \notin DOMAIN w \/ ParseUuid(w[k]) = NoUuid
                      THEN Invalid
                      ELSE [k \in {"variant"} \cup ClientFields(v) |->
                               IF k = "variant" THEN v ELSE ParseUuid(w[k])]

\* The text frames a client sends: the encoding of every command, commands
\* whose session_id is written in the other forms parse_str reads, and
\* objects with a wrong tag, no tag, a missing field, an unreadable field or
\* one field too many.
WireFrames ==
    {Encode(cmd) : cmd \in Commands} \cup
    {[type |-> "subscribe", session_id |-> UuidHex("s1")],
     [type |-> "subscribe", session_id |-> <<"{">> \o UuidText("s1") \o <<"}">>],
     [type |-> "unsubscribe", session_id |-> UrnPrefix \o UuidText("s1")],
     [type |-> "Subscribe", session_id |-> UuidText("s1")],
     [type |-> "pong"],
     [type |-> "subscribe"],
     [session_id |-> UuidText("s1")],
     [type |-> "cancel", session_id |-> <<"n","o","t","-","a","-","u","u","i","d">>],
     [type |-> "subscribe", session_id |-> <<"{">> \o UuidHex("s1") \o <<"}">>],
     [type |-> "subscribe", session_id |-> [UuidText("s1") EXCEPT ![36] = "g"]],
     [type |-> "unsubscribe", session_id |-> UuidText("s1"), extra |-> "x"]}

\* Encode over the commands and Decode over the frames a client sends,
\* computed once.
EncodeTable == [cmd \in Commands |-> Encode(cmd)]
DecodeTable == [w \in WireFrames |-> Decode(w)]
Decoded(w) == IF w \in WireFrames THEN DecodeTable[w] ELSE Decode(w)

None == [type |-> "none", session_id |-> "-", detail |-> "-", seq |-> 0]

\* ------------------------------------------------ ServerMessage (messages.rs)
\* seq is the index of the publish call that produced the event: it tells two
\* publishes of equal content apart.
Subscribed(s) == [type |-> ServerTag["Subscribed"], session_id |-> s, detail |-> "-", seq |-> 0]
Unsubscribed(s) == [type |-> ServerTag["Unsubscribed"], session_id |-> s, detail |-> "-", seq |-> 0]
Output(s, stream, n) == [type |-> ServerTag["Output"], session_id |-> s, detail |-> stream, seq |-> n]
Status(s, status, n) == [type |-> ServerTag["Status"], session_id |-> s, detail |-> status, seq |-> n]
ErrorMsg ==
    [type |-> ServerTag["Error"], session_id |-> "-", detail |-> "invalid message format",
     seq |-> 0]
Pong == [type |-> ServerTag["Pong"], session_id |-> "-", detail |-> "-", seq |-> 0]

\* ------------------------------------------------------------ small helpers
Max(a, b) == IF a > b THEN a ELSE b

DropFirst(q, k) == SubSeq(q, k + 1, Len(q))

\* --------------------------------------------- tokio::sync::broadcast channel
EmptyChan == [buf |-> <<>>, pos |-> 0]

\* A forwarding task that has ended has dropped its Receiver.
Live(t) == t.st # "done"

LiveTasksOn(tk, id) ==
    UNION {{<<c, i>> : i \in {j \in DOMAIN tk[c] : Live(tk[c][j]) /\ tk[c][j].ch = id}} :
           c \in Conns}

\* Sender::receiver_count
ReceiverCountIn(tk, id) == Cardinality(LiveTasksOn(tk, id))
ReceiverCount(id) == ReceiverCountIn(tasks, id)

\* The number of Sender handles of a channel: the one in the map plus the
\* producer's clones (pairs <<session, channel id>>).
SenderCountIn(sc, ps, id) ==
    Cardinality({s \in DOMAIN sc : sc[s] = id}) + Cardinality({h \in ps : h[2] = id})

\* A channel nobody holds a handle of is deallocated.
InUse(sc, ps, tk, id) == SenderCountIn(sc, ps, id) > 0 \/ ReceiverCountIn(tk, id) > 0

\* Slots are released once every receiver that had to read them has read them
\* (or was dropped), and overwritten once CHANNEL_CAPACITY newer values exist.
Retain(ch, tk, id) ==
    LET live == LiveTasksOn(tk, id)
        low  == IF live = {} THEN ch.pos
                ELSE LET nexts == {tk[p[1]][p[2]].next : p \in live}
                     IN  CHOOSE n \in nexts : \A m \in nexts : n <= m
        from == Max(Max(low, ch.pos - CHANNEL_CAPACITY), ch.pos - Len(ch.buf))
    IN  [buf |-> DropFirst(ch.buf, from - (ch.pos - Len(ch.buf))), pos |-> ch.pos]

Settle(chn, sc, ps, tk) ==
    [id \in ChanIds |-> IF InUse(sc, ps, tk, id) THEN Retain(chn[id], tk, id) ELSE EmptyChan]

\* Sender::send: Err(SendError) when there is no receiver (the value is not
\* stored), else the value is stored at the tail and Ok(receiver_count).
SendResult(id) == IF ReceiverCount(id) = 0 THEN "err" ELSE "ok"

\* Mutant of ChanAfterSend: the value is stored and no older value is given up.
ChanAfterSendUnbounded(id, msg) ==
    IF ReceiverCount(id) = 0 THEN chan
    ELSE [chan EXCEPT ![id] = [buf |-> Append(@.buf, msg), pos |-> @.pos + 1]]

\* Mutant of ChanAfterSend: nothing is stored while the outbound queue of some
\* receiver's connection is full or closed.
ChanAfterSendUnlessStalled(id, msg) ==
    IF \/ ReceiverCount(id) = 0
       \/ \E p \in LiveTasksOn(tasks, id) :
             senderState[p[1]] = "gone" \/ Len(outq[p[1]]) >= OUTBOUND_CAPACITY
    THEN chan
    ELSE [chan EXCEPT ![id] = Retain([buf |-> Append(@.buf, msg), pos |-> @.pos + 1],
                                     tasks, id)]

ChanAfterSend(id, msg) ==
    IF ReceiverCount(id) = 0 THEN chan
    ELSE [chan EXCEPT ![id] = Retain([buf |-> Append(@.buf, msg), pos |-> @.pos + 1],
                                     tasks, id)]

FreeIds == {id \in ChanIds : ~InUse(session_channels, prodSenders, tasks, id)}
FreshChan == CHOOSE id \in FreeIds : \A o \in FreeIds : id <= o

\* Receiver::recv on a receiver whose cursor is next.
Lagging(ch, next) == ch.pos - next > CHANNEL_CAPACITY
RecvReady(ch, next) == next < ch.pos
ValueAt(ch, next) == ch.buf[next - (ch.pos - Len(ch.buf)) + 1]

\* ------------------------------------------------- maps (HashMap insert/remove)
MapPut(m, k, v) == [x \in DOMAIN m \cup {k} |-> IF x = k THEN v ELSE m[x]]
MapDel(m, K) == [x \in DOMAIN m \ K |-> m[x]]

\* ------------------------------------------ ConnectionManager (connections.rs)
\* register_connection: insert(connection_id, HashSet::new())
SubsAfterRegister(c) == MapPut(connection_subscriptions, c, {})

\* Mutant of Orphans: the receiver count test is inverted.
OrphansInverted(c) ==
    IF c \in DOMAIN connection_subscriptions
    THEN {s \in connection_subscriptions[c] :
            s \in DOMAIN session_channels /\ ReceiverCount(session_channels[s]) > 0}
    ELSE {}

\* Mutant of Orphans: the receiver count is not looked at.
OrphansUnchecked(c) ==
    IF c \in DOMAIN connection_subscriptions
    THEN {s \in connection_subscriptions[c] : s \in DOMAIN session_channels}
    ELSE {}

\* Mutant of Orphans: every topic without a receiver is reclaimed, whether or
\* not the connection has a record.
OrphansOfAnyone(c) ==
    {s \in DOMAIN session_channels : ReceiverCount(session_channels[s]) = 0}

\* unregister_connection: the sessions of the removed record whose channel has
\* no receiver left are removed from session_channels.
Orphans(c) ==
    IF c \in DOMAIN connection_subscriptions
    THEN {s \in connection_subscriptions[c] :
            s \in DOMAIN session_channels /\ ReceiverCount(session_channels[s]) = 0}
    ELSE {}
\* Mutant of ChannelsAfterUnregister: every session of the removed record
\* loses its channel.
ChannelsAfterUnregisterAll(c) ==
    MapDel(session_channels,
           IF c \in DOMAIN connection_subscriptions THEN connection_subscriptions[c] ELSE {})
\* Mutant of ChannelsAfterUnregister: no channel is ever removed.
ChannelsAfterUnregisterKeep(c) == session_channels
ChannelsAfterUnregister(c) == MapDel(session_channels, Orphans(c))
SubsAfterUnregister(c) == MapDel(connection_subscriptions, {c})

\* Mutant of SubsAfterSubscribe: the session is not recorded.
SubsAfterSubscribeSkip(c, s) == connection_subscriptions

\* Mutant of SubsAfterSubscribe: a record is made for a connection without one.
SubsAfterSubscribeUpsert(c, s) ==
    MapPut(connection_subscriptions, c,
           IF c \in DOMAIN connection_subscriptions
           THEN connection_subscriptions[c] \cup {s} ELSE {s})

\* subscribe: the session joins the connection's set when the connection has a
\* record; the channel is looked up or created; the receiver starts at the tail.
SubsAfterSubscribe(c, s) ==
    IF c \in DOMAIN connection_subscriptions
    THEN [connection_subscriptions EXCEPT ![c] = @ \cup {s}]
    ELSE connection_subscriptions
\* Mutant of ChannelOf: a new channel is made whenever one is free, whether or
\* not the session already has a topic.
ChannelOfFresh(s) == IF FreeIds # {} THEN FreshChan ELSE session_channels[s]

CanGetOrCreate(s) == s \in DOMAIN session_channels \/ FreeIds # {}
ChannelOf(s) == IF s \in DOMAIN session_channels THEN session_channels[s] ELSE FreshChan
ChannelsAfterGetOrCreate(s) == MapPut(session_channels, s, ChannelOf(s))

\* Mutant of SubsAfterUnsubscribe: the session leaves every connection's set.
SubsAfterUnsubscribeAll(c, s) ==
    [d \in DOMAIN connection_subscriptions |-> connection_subscriptions[d] \ {s}]

\* Mutant of SubsAfterUnsubscribe: insert where the code removes.
SubsAfterUnsubscribeInsert(c, s) ==
    IF c \in DOMAIN connection_subscriptions
    THEN [connection_subscriptions EXCEPT ![c] = @ \cup {s}]
    ELSE connection_subscriptions

\* unsubscribe: the session leaves the connection's set; nothing else.
SubsAfterUnsubscribe(c, s) ==
    IF c \in DOMAIN connection_subscriptions
    THEN [connection_subscriptions EXCEPT ![c] = @ \ {s}]
    ELSE connection_subscriptions

\* broadcast: send on the session's channel when the map has one, ignoring
\* the result; nothing at all when it has none.
ChanAfterBroadcast(s, msg) ==
    IF s \in DOMAIN session_channels
    THEN ChanAfterSend(session_channels[s], msg)
    ELSE chan

\* Mutant of has_subscribers: the receiver count is not looked at.
has_subscribers_any_topic(s) == s \in DOMAIN session_channels

\* has_subscribers
has_subscribers(s) ==
    s \in DOMAIN session_channels /\ ReceiverCount(session_channels[s]) > 0

\* One entry of the publish log: the event, the path it took ("broadcast",
\* "cancel" or "sender"), what Sender::send returned ("none" when no send was
\* made) and whether the publish call returned an error to its caller.
PubEntry(msg, via, sent, err) == [msg |-> msg, via |-> via, sent |-> sent, err |-> err]

\* broadcast discards the result of send (`let _ =`) and returns ().
BroadcastSent(s) ==
    IF s \in DOMAIN session_channels THEN SendResult(session_channels[s]) ELSE "none"
BroadcastEntry(msg, via, s) == PubEntry(msg, via, BroadcastSent(s), FALSE)

\* Mutant of ChannelsAfterBroadcast: entry().or_insert_with() as in
\* get_session_sender.
ChannelsAfterBroadcastCreate(s) == ChannelsAfterGetOrCreate(s)

\* broadcast only looks the session up (`if let Some(sender) = ...get(..)`).
ChannelsAfterBroadcast(s) == session_channels

\* ------------------------------------------------ handle_socket (ws/mod.rs)
RxOpen(c) == senderState[c] \in {"running", "aborting"}

\* tx.send(msg).await of the command loop. The handler reaches the await
\* holding msg (PendingAfterAck); the await may yield before it completes,
\* and a full queue suspends it until there is room. When it completes
\* (OutqAfterAck) msg is in the queue, or is dropped with the error of a
\* closed queue, which the loop ignores.
OutqAfterAck(c, m) ==
    IF RxOpen(c) THEN [outq EXCEPT ![c] = Append(@, m)] ELSE outq
PendingAfterAck(c, m) == [pendingAck EXCEPT ![c] = m]

\* The command loop is at receiver.next().await.
Reading(c) == connState[c] = "open" /\ pendingAck[c] = None
CanFrame(c) == Reading(c)

\* Mutant of NewTask: the receiver starts at the oldest retained value.
NewTaskFromStart(s, id) ==
    [session |-> s, ch |-> id, next |-> chan[id].pos - Len(chan[id].buf), st |-> "recv",
     msg |-> None, why |-> "-", since |-> Len(published)]

\* A forwarding task: its session, the channel and cursor of its Receiver, where
\* it is suspended ("recv": rx.recv, "send": tx_inner.send holding msg), and
\* since: the number of publish calls made before its subscribe returned.
NewTask(s, id) ==
    [session |-> s, ch |-> id, next |-> chan[id].pos, st |-> "recv", msg |-> None,
     why |-> "-", since |-> Len(published)]
\* The task has left its loop and dropped its Receiver; why records the exit.
EndTask(t, why) ==
    [session |-> t.session, ch |-> 0, next |-> 0, st |-> "done", msg |-> None,
     why |-> why, since |-> 0]

Init ==
    /\ session_channels = << >>
    /\ connection_subscriptions = << >>
    /\ chan = [id \in ChanIds |-> EmptyChan]
    /\ prodSenders = {}
    /\ tasks = [c \in Conns |-> <<>>]
    /\ outq = [c \in Conns |-> <<>>]
    /\ writing = [c \in Conns |-> None]
    /\ senderState = [c \in Conns |-> "none"]
    /\ pendingAck = [c \in Conns |-> None]
    /\ connState = [c \in Conns |-> "idle"]
    /\ frames = 0
    /\ delivered = [c \in Conns |-> <<>>]
    /\ published = <<>>
    /\ lock = {}
    /\ waiters = <<>>
    /\ seen = << >>

\* handle_socket up to the command loop: register, split, spawn the sender task.
Connect(c) ==
    /\ connState[c] = "idle"
    /\ connState' = [connState EXCEPT ![c] = "open"]
    /\ connection_subscriptions' = SubsAfterRegister(c)
    /\ senderState' = [senderState EXCEPT ![c] = "running"]
    /\ UNCHANGED <<session_channels, chan, prodSenders, tasks, outq, pendingAck,
                   frames, delivered, published,
                   writing>>

\* Mutant of ClientSubscribe: the Receiver is dropped at once, no forwarding
\* task is spawned.
ClientSubscribeNoTask(c, s) ==
    /\ CanFrame(c)
    /\ CanGetOrCreate(s)
    /\ frames' = frames + 1
    /\ connection_subscriptions' = SubsAfterSubscribe(c, s)
    /\ session_channels' = ChannelsAfterGetOrCreate(s)
    /\ chan' = Settle(chan, session_channels', prodSenders, tasks)
    /\ outq' = outq
    /\ pendingAck' = PendingAfterAck(c, Subscribed(s))
    /\ UNCHANGED <<prodSenders, tasks, senderState, connState, delivered, published,
                   writing>>

\* ClientMessage::Subscribe
ClientSubscribe(c, s) ==
    /\ CanFrame(c)
    /\ CanGetOrCreate(s)
    /\ frames' = frames + 1
    /\ connection_subscriptions' = SubsAfterSubscribe(c, s)
    /\ session_channels' = ChannelsAfterGetOrCreate(s)
    /\ tasks' = [tasks EXCEPT ![c] = Append(@, NewTask(s, ChannelOf(s)))]
    /\ chan' = Settle(chan, session_channels', prodSenders, tasks')
    /\ outq' = outq
    /\ pendingAck' = PendingAfterAck(c, Subscribed(s))
    /\ UNCHANGED <<prodSenders, senderState, connState, delivered, published,
                   writing>>

\* Mutant of ClientUnsubscribe: an Error envelope answers an Unsubscribe for a
\* session that is not in the connection's set.
ClientUnsubscribeStrict(c, s) ==
    /\ CanFrame(c)
    /\ frames' = frames + 1
    /\ connection_subscriptions' = SubsAfterUnsubscribe(c, s)
    /\ LET m == IF c \in DOMAIN connection_subscriptions /\ s \in connection_subscriptions[c]
                THEN Unsubscribed(s) ELSE ErrorMsg
       IN  /\ outq' = outq
           /\ pendingAck' = PendingAfterAck(c, m)
    /\ UNCHANGED <<session_channels, chan, prodSenders, tasks, senderState, connState,
                   delivered, published,
                   writing>>

\* Mutant of ClientUnsubscribe: the forwarding tasks the connection started
\* for the session are ended.
ClientUnsubscribeEndsTasks(c, s) ==
    /\ CanFrame(c)
    /\ frames' = frames + 1
    /\ connection_subscriptions' = SubsAfterUnsubscribe(c, s)
    /\ tasks' = [tasks EXCEPT ![c] =
                    [i \in DOMAIN @ |-> IF @[i].session = s /\ Live(@[i])
                                        THEN EndTask(@[i], "unsubscribed") ELSE @[i]]]
    /\ chan' = Settle(chan, session_channels, prodSenders, tasks')
    /\ outq' = outq
    /\ pendingAck' = PendingAfterAck(c, Unsubscribed(s))
    /\ UNCHANGED <<session_channels, prodSenders, senderState, connState,
                   delivered, published,
                   writing>>

\* ClientMessage::Unsubscribe
ClientUnsubscribe(c, s) ==
    /\ CanFrame(c)
    /\ frames' = frames + 1
    /\ connection_subscriptions' = SubsAfterUnsubscribe(c, s)
    /\ outq' = outq
    /\ pendingAck' = PendingAfterAck(c, Unsubscribed(s))
    /\ UNCHANGED <<session_channels, chan, prodSenders, tasks, senderState, connState,
                   delivered, published,
                   writing>>

\* ClientMessage::Cancel: a Status broadcast, no acknowledgement.
ClientCancel(c, s) ==
    /\ CanFrame(c)
    /\ Len(published) < MaxPublish
    /\ frames' = frames + 1
    /\ LET msg == Status(s, "cancelled", Len(published) + 1)
       IN  /\ chan' = ChanAfterBroadcast(s, msg)
           /\ published' = Append(published, BroadcastEntry(msg, "cancel", s))
    /\ session_channels' = ChannelsAfterBroadcast(s)
    /\ UNCHANGED <<connection_subscriptions, prodSenders, tasks, outq,
                   senderState, pendingAck, connState, delivered,
                   writing>>

\* Mutant of ClientPing: the frame is consumed and no Pong is sent.
ClientPingSilent(c) ==
    /\ CanFrame(c)
    /\ frames' = frames + 1
    /\ UNCHANGED <<session_channels, connection_subscriptions, chan, prodSenders, tasks,
                   outq, senderState, pendingAck, connState, delivered, published,
                   writing>>

\* ClientMessage::Ping
ClientPing(c) ==
    /\ CanFrame(c)
    /\ frames' = frames + 1
    /\ outq' = outq
    /\ pendingAck' = PendingAfterAck(c, Pong)
    /\ UNCHANGED <<session_channels, connection_subscriptions, chan, prodSenders, tasks,
                   senderState, connState, delivered, published,
                   writing>>

\* Mutant of ClientMalformed: the loop breaks after the Error envelope and
\* goes on to the cleanup.
ClientMalformedBreaks(c) ==
    /\ CanFrame(c)
    /\ frames' = frames + 1
    /\ outq' = outq
    /\ pendingAck' = PendingAfterAck(c, ErrorMsg)
    /\ connState' = [connState EXCEPT ![c] = "closing"]
    /\ senderState' = [senderState EXCEPT ![c] = IF @ = "running" THEN "aborting" ELSE @]
    /\ UNCHANGED <<session_channels, connection_subscriptions, chan, prodSenders, tasks,
                   delivered, published, writing>>

\* A text frame that serde_json::from_str rejects: an Error envelope, `continue`.
ClientMalformed(c) ==
    /\ CanFrame(c)
    /\ frames' = frames + 1
    /\ outq' = outq
    /\ pendingAck' = PendingAfterAck(c, ErrorMsg)
    /\ UNCHANGED <<session_channels, connection_subscriptions, chan, prodSenders, tasks,
                   senderState, connState, delivered, published,
                   writing>>

\* Mutant of ClientOther: the frame is answered with an Error envelope.
ClientOtherAnswered(c) ==
    /\ CanFrame(c)
    /\ frames' = frames + 1
    /\ outq' = outq
    /\ pendingAck' = PendingAfterAck(c, ErrorMsg)
    /\ UNCHANGED <<session_channels, connection_subscriptions, chan, prodSenders, tasks,
                   senderState, connState, delivered, published,
                   writing>>

\* A frame that is neither Text nor Close (Binary, Ping, Pong): `_ => {}`,
\* the loop goes on to the next frame.
ClientOther(c) ==
    /\ CanFrame(c)
    /\ frames' = frames + 1
    /\ UNCHANGED <<session_channels, connection_subscriptions, chan, prodSenders, tasks,
                   outq, senderState, pendingAck, connState, delivered, published,
                   writing>>

\* tx.send(msg).await of the command loop completes.
FlushAck(c) ==
    /\ pendingAck[c] # None
    /\ ~RxOpen(c) \/ Len(outq[c]) < OUTBOUND_CAPACITY
    /\ outq' = OutqAfterAck(c, pendingAck[c])
    /\ pendingAck' = [pendingAck EXCEPT ![c] = None]
    /\ UNCHANGED <<session_channels, connection_subscriptions, chan, prodSenders, tasks,
                   senderState, connState, frames, delivered, published,
                   writing>>

\* The last item of the inbound stream (a Close frame, an error or its end)
\* is handled: the loop breaks and sender_task.abort() is called. The abort
\* takes effect later (SenderAborted), and so does the unregister that
\* follows (Unregister).
Close(c) ==
    /\ Reading(c)
    /\ frames' = frames + 1
    /\ connState' = [connState EXCEPT ![c] = "closing"]
    /\ senderState' = [senderState EXCEPT ![c] = IF @ = "running" THEN "aborting" ELSE @]
    /\ UNCHANGED <<session_channels, connection_subscriptions, chan, prodSenders, tasks,
                   outq, writing, pendingAck, delivered, published>>

\* manager.unregister_connection(&conn_id).await after the loop: the last
\* statement of handle_socket.
Unregister(c) ==
    /\ connState[c] = "closing"
    /\ pendingAck[c] = None
    /\ connState' = [connState EXCEPT ![c] = "closed"]
    /\ connection_subscriptions' = SubsAfterUnregister(c)
    /\ session_channels' = ChannelsAfterUnregister(c)
    /\ chan' = Settle(chan, session_channels', prodSenders, tasks)
    /\ UNCHANGED <<prodSenders, tasks, outq, writing, senderState, pendingAck, frames,
                   delivered, published>>

\* Mutant of SenderTake: recv() yields the newest envelope of the queue instead
\* of the oldest.
SenderTakeNewest(c) ==
    /\ RxOpen(c)
    /\ writing[c] = None
    /\ outq[c] # <<>>
    /\ writing' = [writing EXCEPT ![c] = outq[c][Len(outq[c])]]
    /\ outq' = [outq EXCEPT ![c] = SubSeq(@, 1, Len(@) - 1)]
    /\ UNCHANGED <<session_channels, connection_subscriptions, chan, prodSenders, tasks,
                   senderState, pendingAck, connState, frames, delivered, published>>

\* The sender task: ws_rx.recv().await yields the oldest envelope of the
\* queue, whose slot is free from then on.
SenderTake(c) ==
    /\ RxOpen(c)
    /\ writing[c] = None
    /\ outq[c] # <<>>
    /\ writing' = [writing EXCEPT ![c] = Head(outq[c])]
    /\ outq' = [outq EXCEPT ![c] = Tail(@)]
    /\ UNCHANGED <<session_channels, connection_subscriptions, chan, prodSenders, tasks,
                   senderState, pendingAck, connState, frames, delivered, published>>

\* The sender task: the envelope is serialized and sender.send(..).await
\* returns Ok: it is written to the WebSocket.
SenderDeliver(c) ==
    /\ RxOpen(c)
    /\ writing[c] # None
    /\ delivered' = [delivered EXCEPT ![c] = Append(@, writing[c])]
    /\ writing' = [writing EXCEPT ![c] = None]
    /\ UNCHANGED <<session_channels, connection_subscriptions, chan, prodSenders, tasks,
                   outq, senderState, pendingAck, connState, frames, published>>

\* sender.send fails: the task breaks and drops ws_rx with what it holds.
SenderFail(c) ==
    /\ RxOpen(c)
    /\ writing[c] # None
    /\ senderState' = [senderState EXCEPT ![c] = "gone"]
    /\ outq' = [outq EXCEPT ![c] = <<>>]
    /\ writing' = [writing EXCEPT ![c] = None]
    /\ UNCHANGED <<session_channels, connection_subscriptions, chan, prodSenders, tasks,
                   pendingAck, connState, frames, delivered, published>>

\* The abort of the sender task takes effect: the task is dropped at the
\* await it is suspended in, with ws_rx and the envelope it holds.
SenderAborted(c) ==
    /\ senderState[c] = "aborting"
    /\ senderState' = [senderState EXCEPT ![c] = "gone"]
    /\ outq' = [outq EXCEPT ![c] = <<>>]
    /\ writing' = [writing EXCEPT ![c] = None]
    /\ UNCHANGED <<session_channels, connection_subscriptions, chan, prodSenders, tasks,
                   pendingAck, connState, frames, delivered, published>>

\* What rx.recv().await of a forwarding task does to the task: a value moves
\* the cursor on; Err(Lagged) and Err(Closed) end the `while let Ok` loop.
TaskAfterRecv(t) ==
    LET ch == chan[t.ch]
    IN  IF Lagging(ch, t.next) THEN EndTask(t, "lagged")
        ELSE IF RecvReady(ch, t.next)
             THEN [t EXCEPT !.next = @ + 1, !.st = "send", !.msg = ValueAt(ch, t.next)]
             ELSE EndTask(t, "closed")

ForwardRecv(c, i) ==
    /\ i \in DOMAIN tasks[c]
    /\ tasks[c][i].st = "recv"
    /\ LET t == tasks[c][i]
       IN  \/ Lagging(chan[t.ch], t.next)
           \/ RecvReady(chan[t.ch], t.next)
           \/ SenderCountIn(session_channels, prodSenders, t.ch) = 0
    /\ tasks' = [tasks EXCEPT ![c][i] = TaskAfterRecv(@)]
    /\ chan' = Settle(chan, session_channels, prodSenders, tasks')
    /\ UNCHANGED <<session_channels, connection_subscriptions, prodSenders, outq,
                   senderState, pendingAck, connState, frames, delivered, published,
                   writing>>

\* tx_inner.send(msg).await of a forwarding task: Err when ws_rx is gone (the
\* task breaks), suspended while the queue is full.
ForwardSend(c, i) ==
    /\ i \in DOMAIN tasks[c]
    /\ tasks[c][i].st = "send"
    /\ ~RxOpen(c) \/ Len(outq[c]) < OUTBOUND_CAPACITY
    /\ IF RxOpen(c)
       THEN /\ outq' = [outq EXCEPT ![c] = Append(@, tasks[c][i].msg)]
            /\ tasks' = [tasks EXCEPT ![c][i] = [@ EXCEPT !.st = "recv", !.msg = None]]
       ELSE /\ outq' = outq
            /\ tasks' = [tasks EXCEPT ![c][i] = EndTask(@, "sendfail")]
    /\ chan' = Settle(chan, session_channels, prodSenders, tasks')
    /\ UNCHANGED <<session_channels, connection_subscriptions, prodSenders, senderState,
                   pendingAck, connState, frames, delivered, published,
                   writing>>

\* Mutant of Broadcast: the call waits until every receiver of the session's
\* channel has read all that was published.
BroadcastWhenAllRead(s, stream) ==
    /\ Len(published) < MaxPublish
    /\ s \in DOMAIN session_channels
       => \A p \in LiveTasksOn(tasks, session_channels[s]) :
             tasks[p[1]][p[2]].next = chan[session_channels[s]].pos
    /\ LET msg == Output(s, stream, Len(published) + 1)
       IN  /\ chan' = ChanAfterBroadcast(s, msg)
           /\ published' = Append(published, BroadcastEntry(msg, "broadcast", s))
    /\ session_channels' = ChannelsAfterBroadcast(s)
    /\ UNCHANGED <<connection_subscriptions, prodSenders, tasks, outq,
                   senderState, pendingAck, connState, frames, delivered,
                   writing>>

\* The external producer calls ConnectionManager::broadcast.
Broadcast(s, stream) ==
    /\ Len(published) < MaxPublish
    /\ LET msg == Output(s, stream, Len(published) + 1)
       IN  /\ chan' = ChanAfterBroadcast(s, msg)
           /\ published' = Append(published, BroadcastEntry(msg, "broadcast", s))
    /\ session_channels' = ChannelsAfterBroadcast(s)
    /\ UNCHANGED <<connection_subscriptions, prodSenders, tasks, outq,
                   senderState, pendingAck, connState, frames, delivered,
                   writing>>

\* The external producer calls get_session_sender and keeps the clone.
GetSessionSender(s) ==
    /\ CanGetOrCreate(s)
    /\ <<s, ChannelOf(s)>> \notin prodSenders
    /\ session_channels' = ChannelsAfterGetOrCreate(s)
    /\ prodSenders' = prodSenders \cup {<<s, ChannelOf(s)>>}
    /\ UNCHANGED <<connection_subscriptions, chan, tasks, outq, senderState, pendingAck,
                   connState, frames, delivered, published,
                   writing>>

\* The external producer sends through a clone it holds.
ProducerSend(h, stream) ==
    /\ h \in prodSenders
    /\ Len(published) < MaxPublish
    /\ LET msg == Output(h[1], stream, Len(published) + 1)
       IN  /\ chan' = ChanAfterSend(h[2], msg)
           /\ published' = Append(published,
                                  PubEntry(msg, "sender", SendResult(h[2]),
                                           SendResult(h[2]) = "err"))
    /\ UNCHANGED <<session_channels, connection_subscriptions, prodSenders, tasks, outq,
                   senderState, pendingAck, connState, frames, delivered,
                   writing>>

Next ==
    \/ \E c \in Conns : Connect(c) /\ UNCHANGED lockVars
    \/ \E c \in Conns, s \in Sessions : frames < MaxFrames /\ ClientSubscribe(c, s) /\ UNCHANGED lockVars
    \/ \E c \in Conns, s \in Sessions : frames < MaxFrames /\ ClientUnsubscribe(c, s) /\ UNCHANGED lockVars
    \/ \E c \in Conns, s \in Sessions : frames < MaxFrames /\ ClientCancel(c, s) /\ UNCHANGED lockVars
    \/ \E c \in Conns : frames < MaxFrames /\ ClientPing(c) /\ UNCHANGED lockVars
    \/ \E c \in Conns : frames < MaxFrames /\ ClientMalformed(c) /\ UNCHANGED lockVars
    \/ \E c \in Conns : frames < MaxFrames /\ ClientOther(c) /\ UNCHANGED lockVars
    \/ \E c \in Conns : FlushAck(c) /\ UNCHANGED lockVars
    \/ \E c \in Conns : frames < MaxFrames /\ Close(c) /\ UNCHANGED lockVars
    \/ \E c \in Conns : Unregister(c) /\ UNCHANGED lockVars
    \/ \E c \in Conns : SenderTake(c) /\ UNCHANGED lockVars
    \/ \E c \in Conns : SenderDeliver(c) /\ UNCHANGED lockVars
    \/ \E c \in Conns : SenderFail(c) /\ UNCHANGED lockVars
    \/ \E c \in Conns : SenderAborted(c) /\ UNCHANGED lockVars
    \/ \E c \in Conns, i \in 1..MaxFrames : ForwardRecv(c, i) /\ UNCHANGED lockVars
    \/ \E c \in Conns, i \in 1..MaxFrames : ForwardSend(c, i) /\ UNCHANGED lockVars
    \/ \E s \in Sessions, stream \in Streams : Broadcast(s, stream) /\ UNCHANGED lockVars
    \/ \E s \in Sessions : GetSessionSender(s) /\ UNCHANGED lockVars
    \/ \E h \in Sessions \X ChanIds, stream \in Streams : ProducerSend(h, stream) /\ UNCHANGED lockVars

Spec == Init /\ [][Next]_vars

\* ------------------------------------------- handle_socket, short behaviours
\* SpecMux is handle_socket in behaviours where a client frame (the closing
\* one included) or a publish is made only while fewer than MaxCalls frames
\* and publishes have been made; a sender the producer asks for counts as
\* a call when it is handed out.
MuxCalls == frames + Len(published)

NextMux ==
    \/ \E c \in Conns : Connect(c) /\ UNCHANGED lockVars
    \/ \E c \in Conns, s \in Sessions : MuxCalls < MaxCalls /\ ClientSubscribe(c, s) /\ UNCHANGED lockVars
    \/ \E c \in Conns, s \in Sessions : MuxCalls < MaxCalls /\ ClientUnsubscribe(c, s) /\ UNCHANGED lockVars
    \/ \E c \in Conns, s \in Sessions : MuxCalls < MaxCalls /\ ClientCancel(c, s) /\ UNCHANGED lockVars
    \/ \E c \in Conns : MuxCalls < MaxCalls /\ ClientPing(c) /\ UNCHANGED lockVars
    \/ \E c \in Conns : MuxCalls < MaxCalls /\ ClientMalformed(c) /\ UNCHANGED lockVars
    \/ \E c \in Conns : MuxCalls < MaxCalls /\ ClientOther(c) /\ UNCHANGED lockVars
    \/ \E c \in Conns : FlushAck(c) /\ UNCHANGED lockVars
    \/ \E c \in Conns : MuxCalls < MaxCalls /\ Close(c) /\ UNCHANGED lockVars
    \/ \E c \in Conns : Unregister(c) /\ UNCHANGED lockVars
    \/ \E c \in Conns : SenderTake(c) /\ UNCHANGED lockVars
    \/ \E c \in Conns : SenderDeliver(c) /\ UNCHANGED lockVars
    \/ \E c \in Conns : SenderFail(c) /\ UNCHANGED lockVars
    \/ \E c \in Conns : SenderAborted(c) /\ UNCHANGED lockVars
    \/ \E c \in Conns, i \in 1..MaxCalls : ForwardRecv(c, i) /\ UNCHANGED lockVars
    \/ \E c \in Conns, i \in 1..MaxCalls : ForwardSend(c, i) /\ UNCHANGED lockVars
    \/ \E s \in Sessions, stream \in Streams : MuxCalls < MaxCalls /\ Broadcast(s, stream) /\ UNCHANGED lockVars
    \/ \E s \in Sessions :
          MuxCalls + Cardinality(prodSenders) < MaxCalls /\ GetSessionSender(s) /\ UNCHANGED lockVars
    \/ \E h \in Sessions \X ChanIds, stream \in Streams :
          MuxCalls < MaxCalls /\ ProducerSend(h, stream) /\ UNCHANGED lockVars

SpecMux == Init /\ [][NextMux]_vars

\* The tasks tokio runs are scheduled fairly: a command loop that can complete
\* its send or that has its cleanup to run, a sender task that can take an
\* envelope, an abort that is pending and a forwarding task that can take its
\* next step are not postponed for ever.  The write of the sender task
\* (sender.send(..).await, no timeout) ends when the transport lets it and
\* may stay pending for ever: no fairness for SenderDeliver and SenderFail.
MuxFairness ==
    \A c \in Conns :
        /\ WF_vars(FlushAck(c) /\ UNCHANGED lockVars)
        /\ WF_vars(Unregister(c) /\ UNCHANGED lockVars)
        /\ WF_vars(SenderTake(c) /\ UNCHANGED lockVars)
        /\ WF_vars(SenderAborted(c) /\ UNCHANGED lockVars)
        /\ \A i \in 1..MaxCalls :
              /\ WF_vars(ForwardRecv(c, i) /\ UNCHANGED lockVars)
              /\ WF_vars(ForwardSend(c, i) /\ UNCHANGED lockVars)

SpecMuxFair == Init /\ [][NextMux]_vars /\ MuxFairness

\* ------------------------------------------- handle_socket on text frames
\* The dispatch of a decoded command (mod.rs: match client_msg).
Dispatch(c, cmd) ==
    CASE cmd.variant = "Subscribe"   -> ClientSubscribe(c, cmd.session_id)
      [] cmd.variant = "Unsubscribe" -> ClientUnsubscribe(c, cmd.session_id)
      [] cmd.variant = "Cancel"      -> ClientCancel(c, cmd.session_id)
      [] cmd.variant = "Ping"        -> ClientPing(c)

\* Message::Text(text): the frame is decoded and the command dispatched, or
\* the decode failure is answered with an Error envelope.
TextFrame(c, w) ==
    IF Decoded(w) = Invalid THEN ClientMalformed(c) ELSE Dispatch(c, Decoded(w))

\* SpecMux with the client frames given as wire text; here a connection that
\* is accepted counts as a call too.
WireCalls == MuxCalls + Cardinality({c \in Conns : connState[c] # "idle"})

NextWire ==
    \/ \E c \in Conns : WireCalls < MaxCalls /\ Connect(c) /\ UNCHANGED lockVars
    \/ \E c \in Conns, w \in WireFrames : WireCalls < MaxCalls /\ TextFrame(c, w) /\ UNCHANGED lockVars
    \/ \E c \in Conns : WireCalls < MaxCalls /\ ClientOther(c) /\ UNCHANGED lockVars
    \/ \E c \in Conns : FlushAck(c) /\ UNCHANGED lockVars
    \/ \E c \in Conns : WireCalls < MaxCalls /\ Close(c) /\ UNCHANGED lockVars
    \/ \E c \in Conns : Unregister(c) /\ UNCHANGED lockVars
    \/ \E c \in Conns : SenderTake(c) /\ UNCHANGED lockVars
    \/ \E c \in Conns : SenderDeliver(c) /\ UNCHANGED lockVars
    \/ \E c \in Conns : SenderFail(c) /\ UNCHANGED lockVars
    \/ \E c \in Conns : SenderAborted(c) /\ UNCHANGED lockVars
    \/ \E c \in Conns, i \in 1..MaxCalls : ForwardRecv(c, i) /\ UNCHANGED lockVars
    \/ \E c \in Conns, i \in 1..MaxCalls : ForwardSend(c, i) /\ UNCHANGED lockVars
    \/ \E s \in Sessions, stream \in Streams : WireCalls < MaxCalls /\ Broadcast(s, stream) /\ UNCHANGED lockVars
    \/ \E s \in Sessions :
          WireCalls + Cardinality(prodSenders) < MaxCalls /\ GetSessionSender(s) /\ UNCHANGED lockVars
    \/ \E h \in Sessions \X ChanIds, stream \in Streams :
          WireCalls < MaxCalls /\ ProducerSend(h, stream) /\ UNCHANGED lockVars

SpecWire == Init /\ [][NextWire]_vars

\* ------------------------------------------------ the RwLock of the hub
\* Every ConnectionManager method begins with inner.write().await or
\* inner.read().await and keeps the guard until it returns.  In SpecLock a
\* call is the step that reaches the lock (the guard is granted, or the call
\* queues and is granted its guard by a release) and the body with the
\* release, so that calls overlap wherever the lock lets them.
Callers == Conns \cup {"producer", "monitor"}
HubOps == {"register_connection", "unregister_connection", "subscribe", "unsubscribe",
           "broadcast", "get_session_sender", "has_subscribers"}

\* Mutant of LockMode: every method takes the read half.
LockModeAllRead(op) == "read"

\* The half of the lock each method takes.
LockMode(op) == IF op \in {"broadcast", "has_subscribers"} THEN "read" ELSE "write"

Guard(who, op, s) == [who |-> who, op |-> op, session |-> s, mode |-> LockMode(op)]
Waiting == {waiters[i] : i \in DOMAIN waiters}
Holds(who) == \E h \in lock : h.who = who
Waits(who) == \E i \in DOMAIN waiters : waiters[i].who = who
InCall(who) == Holds(who) \/ Waits(who)

\* A guard of the given half next to the guards held: a write guard next to
\* none, a read guard next to read guards.
Compatible(held, mode) == IF mode = "write" THEN held = {} ELSE \A h \in held : h.mode = "read"

\* tokio::sync::RwLock is fair (write-preferring): inner.write().await and
\* inner.read().await return at once only when no call is queued and the
\* guards held allow the new one; otherwise the call joins the queue, a
\* reader behind a waiting writer too.
CanLock(mode) == waiters = <<>> /\ Compatible(lock, mode)

\* The release of a guard hands the lock to the queue, the oldest call first,
\* as long as the call at the head is compatible with the guards then held:
\* the guards held after the hand-over and the calls left in the queue.
RECURSIVE Granted(_, _)
Granted(held, q) ==
    IF q # <<>> /\ Compatible(held, Head(q).mode)
    THEN Granted(held \cup {Head(q)}, Tail(q))
    ELSE held

RECURSIVE StillWaiting(_, _)
StillWaiting(held, q) ==
    IF q # <<>> /\ Compatible(held, Head(q).mode)
    THEN StillWaiting(held \cup {Head(q)}, Tail(q))
    ELSE q

\* ConnectionManagerInner, the data behind the lock: a guard dereferences to
\* it, and a method reads and writes it from the grant of its guard to its
\* return.
Registry == <<session_channels, connection_subscriptions>>

\* Frames and publishes of the calls that hold or wait for a guard and have
\* not run yet (a Cancel frame is both a frame and a publish), and the calls
\* made so far in a behaviour of SpecLock: frames, publishes and senders
\* handed out; a connection that is accepted next to another one counts as
\* a call too.
InHub == lock \cup Waiting
IsFrame(h) == h.who \in Conns /\ h.op \in {"subscribe", "unsubscribe", "broadcast"}
FramesInFlight == Cardinality({h \in InHub : IsFrame(h)})
PublishesInFlight == Cardinality({h \in InHub : h.op = "broadcast"})
SendersInFlight == Cardinality({h \in InHub : h.op = "get_session_sender"})
Begun(c) == connState[c] # "idle" \/ InCall(c)
ExtraConns == IF \A c \in Conns : Begun(c) THEN 1 ELSE 0
LockCalls ==
    MuxCalls + Cardinality(prodSenders) + FramesInFlight + PublishesInFlight + SendersInFlight
        + ExtraConns

\* n more calls fit the budget of a behaviour of SpecLock, and one more
\* client frame does.
CallsLeft(n) == MuxCalls + n <= MaxCalls /\ LockCalls + n <= MaxCalls
FrameLeft == frames < MaxFrames /\ frames + FramesInFlight < MaxFrames

\* Who calls what, and when: handle_socket calls register_connection first,
\* subscribe, unsubscribe and broadcast (Cancel) from its command loop and
\* unregister_connection when the loop has ended; the producer publishes and
\* asks for senders; has_subscribers is open to any other caller.  Frames,
\* publishes, senders and a second connection are made while the budget of
\* calls has room, frames while the budget of frames has.
CanCall(who, op, s) ==
    CASE op = "register_connection" ->
            /\ who \in Conns /\ s = "-" /\ connState[who] = "idle"
            /\ (\E c \in Conns : Begun(c)) => CallsLeft(1)
      [] op = "unregister_connection" ->
            who \in Conns /\ s = "-" /\ connState[who] = "closing" /\ pendingAck[who] = None
      [] op = "subscribe" ->
            /\ who \in Conns /\ s \in Sessions /\ CanFrame(who)
            /\ FrameLeft /\ CallsLeft(1)
            /\ CanGetOrCreate(s)
      [] op = "unsubscribe" ->
            who \in Conns /\ s \in Sessions /\ CanFrame(who) /\ FrameLeft /\ CallsLeft(1)
      [] op = "broadcast" ->
            /\ s \in Sessions
            /\ who \in Conns => CanFrame(who)
            /\ who \in Conns \cup {"producer"}
            /\ who \in Conns => FrameLeft
            /\ CallsLeft(IF who \in Conns THEN 2 ELSE 1)
            /\ Len(published) + PublishesInFlight < MaxPublish
      [] op = "get_session_sender" ->
            /\ who = "producer" /\ s \in Sessions
            /\ CallsLeft(1)
            /\ CanGetOrCreate(s)
            /\ <<s, ChannelOf(s)>> \notin prodSenders
      [] op = "has_subscribers" -> who = "monitor" /\ s \in Sessions

\* The call reaches the lock and the guard is granted at once.
LockAcquire(who, op, s) ==
    /\ ~InCall(who)
    /\ CanCall(who, op, s)
    /\ CanLock(LockMode(op))
    /\ lock' = lock \cup {Guard(who, op, s)}
    /\ seen' = MapPut(seen, who, Registry)
    /\ UNCHANGED <<session_channels, connection_subscriptions, chan, prodSenders, tasks,
                   outq, senderState, pendingAck, connState, frames, delivered, published,
                   writing, waiters>>

\* The call reaches the lock and has to wait: it joins the queue.
LockWait(who, op, s) ==
    /\ ~InCall(who)
    /\ CanCall(who, op, s)
    /\ ~CanLock(LockMode(op))
    /\ waiters' = Append(waiters, Guard(who, op, s))
    /\ UNCHANGED <<session_channels, connection_subscriptions, chan, prodSenders, tasks,
                   outq, senderState, pendingAck, connState, frames, delivered, published,
                   writing, lock, seen>>

\* has_subscribers: a lookup and receiver_count, nothing is written.
HasSubscribers(s) ==
    /\ has_subscribers(s) \in BOOLEAN
    /\ UNCHANGED <<session_channels, connection_subscriptions, chan, prodSenders, tasks,
                   outq, senderState, pendingAck, connState, frames, delivered, published,
                   writing>>

\* What the holder of a guard does under it and, for a command loop, right
\* after the method returned.
LockedBody(h) ==
    CASE h.op = "register_connection" -> Connect(h.who)
      [] h.op = "unregister_connection" -> Unregister(h.who)
      [] h.op = "subscribe" -> ClientSubscribe(h.who, h.session)
      [] h.op = "unsubscribe" -> ClientUnsubscribe(h.who, h.session)
      [] h.op = "broadcast" ->
            IF h.who \in Conns THEN ClientCancel(h.who, h.session)
            ELSE \E stream \in Streams : Broadcast(h.session, stream)
      [] h.op = "get_session_sender" -> GetSessionSender(h.session)
      [] h.op = "has_subscribers" -> HasSubscribers(h.session)

\* Mutant of LockAfterRun: a command loop keeps the guard while it sends the
\* acknowledgement.
LockAfterRunHeldWhileSending(h) ==
    IF h.who \in Conns /\ pendingAck'[h.who] # None THEN lock ELSE lock \ {h}

\* The guard is a local of the method: it is dropped when the method returns.
LockAfterRun(h) == lock \ {h}

\* The method body runs, the guard is released and the queue is served: a
\* call that is granted its guard by the release finds the registry as the
\* body left it.
LockedRun(h) ==
    /\ h \in lock
    /\ LockedBody(h)
    /\ lock' = Granted(LockAfterRun(h), waiters)
    /\ waiters' = StillWaiting(LockAfterRun(h), waiters)
    /\ seen' = [who \in {g.who : g \in lock'} |->
                  IF who \in DOMAIN seen /\ who # h.who
                  THEN seen[who]
                  ELSE <<session_channels', connection_subscriptions'>>]

\* The calls a caller can ever make: a method that takes no session is
\* called with "-", a command loop calls the methods handle_socket calls.
LockRequests ==
    {Guard(who, op, s) : who \in Conns, op \in {"register_connection", "unregister_connection"},
                         s \in {"-"}}
    \cup {Guard(who, op, s) : who \in Conns, op \in {"subscribe", "unsubscribe", "broadcast"},
                              s \in Sessions}
    \cup {Guard("producer", op, s) : op \in {"broadcast", "get_session_sender"}, s \in Sessions}
    \cup {Guard("monitor", "has_subscribers", s) : s \in Sessions}

NextLock ==
    \/ \E g \in LockRequests : LockAcquire(g.who, g.op, g.session)
    \/ \E g \in LockRequests : LockWait(g.who, g.op, g.session)
    \/ \E h \in lock : LockedRun(h)
    \/ \E c \in Conns : FlushAck(c) /\ UNCHANGED lockVars
    \/ \E c \in Conns : FrameLeft /\ CallsLeft(1) /\ ~InCall(c) /\ ClientPing(c) /\ UNCHANGED lockVars
    \/ \E c \in Conns : FrameLeft /\ CallsLeft(1) /\ ~InCall(c) /\ ClientMalformed(c) /\ UNCHANGED lockVars
    \/ \E c \in Conns : FrameLeft /\ CallsLeft(1) /\ ~InCall(c) /\ ClientOther(c) /\ UNCHANGED lockVars
    \/ \E c \in Conns : FrameLeft /\ CallsLeft(1) /\ ~InCall(c) /\ Close(c) /\ UNCHANGED lockVars
    \/ \E c \in Conns : SenderTake(c) /\ UNCHANGED lockVars
    \/ \E c \in Conns : SenderDeliver(c) /\ UNCHANGED lockVars
    \/ \E c \in Conns : SenderFail(c) /\ UNCHANGED lockVars
    \/ \E c \in Conns : SenderAborted(c) /\ UNCHANGED lockVars
    \/ \E c \in Conns, i \in 1..MaxCalls : ForwardRecv(c, i) /\ UNCHANGED lockVars
    \/ \E c \in Conns, i \in 1..MaxCalls : ForwardSend(c, i) /\ UNCHANGED lockVars
    \/ \E h \in Sessions \X ChanIds, stream \in Streams :
          /\ CallsLeft(1)
          /\ Len(published) + PublishesInFlight < MaxPublish
          /\ ProducerSend(h, stream)
          /\ UNCHANGED lockVars

SpecLock == Init /\ [][NextLock]_vars

\* -------------------------------------- ConnectionManager under any caller
\* SpecHub lets callers use the public methods of ConnectionManager in any
\* order, as the unit tests do: the caller keeps the Receiver that subscribe
\* returns, reads it with recv and drops it when it likes.  delivered[c] is
\* then the sequence of values recv returned to the handles of c.

\* Mutant of HandleAfterRecv: the cursor is not moved past the value read.
HandleAfterRecvSameCursor(t) ==
    LET ch == chan[t.ch]
    IN  IF Lagging(ch, t.next)
        THEN [t EXCEPT !.next = ch.pos - CHANNEL_CAPACITY, !.why = "lagged"]
        ELSE t

\* What Receiver::recv does to a handle the caller keeps: a value moves the
\* cursor on; Err(Lagged) moves it to the oldest retained value, and why
\* records that the handle has skipped values.  Err(Closed) changes nothing.
HandleAfterRecv(t) ==
    LET ch == chan[t.ch]
    IN  IF Lagging(ch, t.next)
        THEN [t EXCEPT !.next = ch.pos - CHANNEL_CAPACITY, !.why = "lagged"]
        ELSE [t EXCEPT !.next = @ + 1]

\* Subscribe and publish calls made so far, over all connection ids.
HubCalls == Len(tasks["c1"]) + Len(tasks["c2"]) + Len(published)

HubRegister(c) ==
    /\ connection_subscriptions' = SubsAfterRegister(c)
    /\ connState' = [connState EXCEPT ![c] = "open"]
    /\ UNCHANGED <<session_channels, chan, prodSenders, tasks, outq, senderState,
                   pendingAck, frames, delivered, published,
                   writing>>

HubUnregister(c) ==
    /\ connection_subscriptions' = SubsAfterUnregister(c)
    /\ session_channels' = ChannelsAfterUnregister(c)
    /\ chan' = Settle(chan, session_channels', prodSenders, tasks)
    /\ connState' = [connState EXCEPT ![c] = IF @ = "open" THEN "closed" ELSE @]
    /\ UNCHANGED <<prodSenders, tasks, outq, senderState, pendingAck, frames,
                   delivered, published,
                   writing>>

HubSubscribe(c, s) ==
    /\ HubCalls < MaxCalls
    /\ CanGetOrCreate(s)
    /\ connection_subscriptions' = SubsAfterSubscribe(c, s)
    /\ session_channels' = ChannelsAfterGetOrCreate(s)
    /\ tasks' = [tasks EXCEPT ![c] = Append(@, NewTask(s, ChannelOf(s)))]
    /\ chan' = Settle(chan, session_channels', prodSenders, tasks')
    /\ UNCHANGED <<prodSenders, outq, senderState, pendingAck, connState, frames,
                   delivered, published,
                   writing>>

HubUnsubscribe(c, s) ==
    /\ connection_subscriptions' = SubsAfterUnsubscribe(c, s)
    /\ UNCHANGED <<session_channels, chan, prodSenders, tasks, outq, senderState,
                   pendingAck, connState, frames, delivered, published,
                   writing>>

\* The caller reads a handle that has something to return.
HandleRecv(c, i) ==
    /\ i \in DOMAIN tasks[c]
    /\ Live(tasks[c][i])
    /\ LET t == tasks[c][i]
       IN  /\ Lagging(chan[t.ch], t.next) \/ RecvReady(chan[t.ch], t.next)
           /\ delivered' = IF Lagging(chan[t.ch], t.next) THEN delivered
                           ELSE [delivered EXCEPT ![c] = Append(@, ValueAt(chan[t.ch], t.next))]
    /\ tasks' = [tasks EXCEPT ![c][i] = HandleAfterRecv(@)]
    /\ chan' = Settle(chan, session_channels, prodSenders, tasks')
    /\ UNCHANGED <<session_channels, connection_subscriptions, prodSenders, outq,
                   senderState, pendingAck, connState, frames, published,
                   writing>>

\* The caller drops a handle.
HandleDrop(c, i) ==
    /\ i \in DOMAIN tasks[c]
    /\ Live(tasks[c][i])
    /\ tasks' = [tasks EXCEPT ![c][i] = EndTask(@, "dropped")]
    /\ chan' = Settle(chan, session_channels, prodSenders, tasks')
    /\ UNCHANGED <<session_channels, connection_subscriptions, prodSenders, outq,
                   senderState, pendingAck, connState, frames, delivered, published,
                   writing>>

NextHub ==
    \/ \E c \in Conns : HubRegister(c) /\ UNCHANGED lockVars
    \/ \E c \in Conns : HubUnregister(c) /\ UNCHANGED lockVars
    \/ \E c \in Conns, s \in Sessions : HubSubscribe(c, s) /\ UNCHANGED lockVars
    \/ \E c \in Conns, s \in Sessions : HubUnsubscribe(c, s) /\ UNCHANGED lockVars
    \/ \E c \in Conns, i \in 1..MaxCalls : HandleRecv(c, i) /\ UNCHANGED lockVars
    \/ \E c \in Conns, i \in 1..MaxCalls : HandleDrop(c, i) /\ UNCHANGED lockVars
    \/ \E s \in Sessions, stream \in Streams : HubCalls < MaxCalls /\ Broadcast(s, stream) /\ UNCHANGED lockVars
    \/ \E s \in Sessions : GetSessionSender(s) /\ UNCHANGED lockVars
    \/ \E h \in Sessions \X ChanIds, stream \in Streams :
          HubCalls < MaxCalls /\ ProducerSend(h, stream) /\ UNCHANGED lockVars

SpecHub == Init /\ [][NextHub]_vars

\* ------------------------------------------------------------ vocabulary
\* The steps the server takes by itself, with no client frame, no publish and
\* no transport failure.
InternalStep ==
    \E c \in Conns :
        \/ FlushAck(c)
        \/ Unregister(c)
        \/ SenderTake(c)
        \/ SenderDeliver(c)
        \/ SenderAborted(c)
        \/ \E i \in DOMAIN tasks[c] : ForwardRecv(c, i) \/ ForwardSend(c, i)

\* Nothing can happen any more unless a client, the producer or a transport acts.
Quiescent == ~ENABLED InternalStep

InSet(subs, c, s) == c \in DOMAIN subs /\ s \in subs[c]

\* The forwarding tasks connection c started for session s, and the live ones.
TasksFor(c, s) == {i \in DOMAIN tasks[c] : tasks[c][i].session = s}
LiveTasksIn(tk, c, s) == {i \in DOMAIN tk[c] : tk[c][i].session = s /\ Live(tk[c][i])}
LiveTasksFor(c, s) == LiveTasksIn(tasks, c, s)

\* The events (the envelopes that came from a publish) in a sequence of envelopes.
IsEvent(m) == m.seq > 0
Occurrences(q, m) == Cardinality({i \in DOMAIN q : q[i] = m})

\* The places where a copy of event e is on its way to connection c through
\* task i: still unread in the channel, held by the task, in the queue, written.
Unread(c, i, e) ==
    LET t == tasks[c][i]
        ch == chan[t.ch]
    IN  /\ t.ch # 0
        /\ \E n \in t.next..(ch.pos - 1) :
              /\ n >= ch.pos - Len(ch.buf)
              /\ ValueAt(ch, n) = e
Held(c, e) == Cardinality({i \in DOMAIN tasks[c] : tasks[c][i].msg = e})
Pending(c, e) == Cardinality({i \in DOMAIN tasks[c] : Live(tasks[c][i]) /\ Unread(c, i, e)})
\* The copies of event e that have left the channel on their way to c: held
\* by a forwarding task, queued, being written, written.
PassedOn(c, e) ==
    Held(c, e) + Occurrences(outq[c], e)
        + (IF writing[c] = e THEN 1 ELSE 0) + Occurrences(delivered[c], e)
Copies(c, e) == Pending(c, e) + PassedOn(c, e)

\* -------------------------------------------------------------------- C1
\* C1: the events of a session that a connection receives appear in the order
\* in which they were published: no event is written to the connection after
\* an event of the same session that was published later.
C1_PublishOrder ==
    \A c \in Conns : \A i, j \in DOMAIN delivered[c] :
        (/\ i < j
         /\ IsEvent(delivered[c][i])
         /\ IsEvent(delivered[c][j])
         /\ delivered[c][i].session_id = delivered[c][j].session_id)
        => delivered[c][i].seq <= delivered[c][j].seq

\* -------------------------------------------------------------------- C2
\* C2: for every connection that subscribed exactly once to session S before
\* an event was broadcast to S, there is exactly one copy of the event for
\* that connection (unread in the channel, held by its forwarding task, queued,
\* or handed to the connection) as long as its subscription handle is live and
\* has not lagged and its outbound queue has not been closed, and never more
\* than one.
C2_FanOut ==
    \A k \in DOMAIN published : \A c \in Conns :
        LET e == published[k].msg
            mine == TasksFor(c, e.session_id)
        IN  (Cardinality(mine) = 1 /\ \A i \in mine : tasks[c][i].since < k)
            => /\ Copies(c, e) <= 1
               /\ \A i \in mine :
                     (/\ published[k].via # "sender"
                      /\ Live(tasks[c][i])
                      /\ ~Lagging(chan[tasks[c][i].ch], tasks[c][i].next)
                      /\ tasks[c][i].why # "lagged"
                      /\ senderState[c] # "gone")
                     => Copies(c, e) = 1

\* Both connections are registered and subscribed once, and each was handed
\* the same broadcast event once.
C2_Witness ==
    \E k \in DOMAIN published :
        /\ published[k].via = "broadcast"
        /\ \A c \in Conns :
              /\ InSet(connection_subscriptions, c, published[k].msg.session_id)
              /\ Cardinality(TasksFor(c, published[k].msg.session_id)) = 1
              /\ Occurrences(delivered[c], published[k].msg) = 1

\* -------------------------------------------------------------------- C3
\* C3: once a connection has unregistered and the server has nothing left to
\* do by itself, has_subscribers is false for every session whose only
\* subscription handles were that connection's (no further publish needed).
C3_CleanupAfterUnregister ==
    \A s \in Sessions :
        (/\ Quiescent
         /\ \E c \in Conns : connState[c] = "closed" /\ TasksFor(c, s) # {}
         /\ \A c \in Conns : LiveTasksFor(c, s) # {} => connState[c] = "closed")
        => ~has_subscribers(s)

\* -------------------------------------------------------------------- C4
\* C4: once a connection has closed and the server has nothing left to do by
\* itself, every forwarding task of that connection has terminated (whether
\* or not a further event is published).
C4_ForwardersTerminate ==
    \A c \in Conns :
        (Quiescent /\ connState[c] = "closed")
        => \A i \in DOMAIN tasks[c] : ~Live(tasks[c][i])

\* -------------------------------------------------------------------- C5
\* C5: there is at most one forwarding task per (connection, session), so a
\* connection is never written the same published event twice, however many
\* times it sent Subscribe for the session.
C5_NoDuplicateDelivery ==
    \A c \in Conns :
        /\ \A k \in DOMAIN published : Occurrences(delivered[c], published[k].msg) <= 1
        /\ \A s \in Sessions : Cardinality(LiveTasksFor(c, s)) <= 1

\* -------------------------------------------------------------------- C6
\* C6 as stated: a session has a topic in the registry if and only if it has
\* at least one live subscription handle.
C6_TopicIffSubscribed ==
    \A s \in Sessions :
        s \in DOMAIN session_channels <=> \E c \in Conns : LiveTasksFor(c, s) # {}

\* C6 amended: every session with a live subscription handle has a topic in
\* the registry, and the handle is a receiver of that topic's channel (a topic
\* with no handle may stay in the registry).
C6_SubscribedHasTopic ==
    \A c \in Conns : \A i \in DOMAIN tasks[c] :
        Live(tasks[c][i])
        => /\ tasks[c][i].session \in DOMAIN session_channels
           /\ session_channels[tasks[c][i].session] = tasks[c][i].ch

\* A connection has unregistered while one of its handles is live, and another
\* connection has unregistered after its own handle was dropped: the topic is
\* still there.
C6_Witness ==
    \E s \in Sessions : \E c, d \in Conns :
        /\ c # d
        /\ connState[c] = "closed" /\ LiveTasksFor(c, s) # {}
        /\ connState[d] = "closed" /\ TasksFor(d, s) # {} /\ LiveTasksFor(d, s) = {}
        /\ s \in DOMAIN session_channels

\* -------------------------------------------------------------------- C7
\* C7 as stated: a session is in a registered connection's subscription set
\* if and only if the connection holds a live subscription handle on it.
C7_SetIffHandle ==
    \A c \in DOMAIN connection_subscriptions : \A s \in Sessions :
        s \in connection_subscriptions[c] <=> LiveTasksFor(c, s) # {}

\* C7 amended: a session joins a connection's subscription set only in a step
\* that gives the connection a new live handle on it (subscribe); a step that
\* takes it out of the set (unsubscribe, unregister, registering again) drops
\* no handle, and a step that drops a handle changes no set.
C7_SetAndHandleSteps ==
    [][\A c \in Conns : \A s \in Sessions :
          /\ (InSet(connection_subscriptions', c, s) /\ ~InSet(connection_subscriptions, c, s))
             => /\ LiveTasksIn(tasks', c, s) \ LiveTasksIn(tasks, c, s) # {}
                /\ LiveTasksIn(tasks, c, s) \subseteq LiveTasksIn(tasks', c, s)
          /\ (InSet(connection_subscriptions, c, s) /\ ~InSet(connection_subscriptions', c, s))
             => tasks' = tasks
          /\ LiveTasksIn(tasks, c, s) \ LiveTasksIn(tasks', c, s) # {}
             => connection_subscriptions' = connection_subscriptions]_vars

\* An Unsubscribe has been handled: the connection is registered, the session
\* is not in its set and the handle of its earlier Subscribe is still live.
C7_Witness ==
    \E c \in DOMAIN connection_subscriptions : \E s \in Sessions :
        /\ s \notin connection_subscriptions[c]
        /\ LiveTasksFor(c, s) # {}

\* -------------------------------------------------------------------- C8
\* C8: a forwarding task that has fallen behind by more than the capacity
\* skips the oldest events and goes on: no forwarding task ever ends because
\* its receiver lagged.
C8_LagDoesNotEndDelivery ==
    \A c \in Conns : \A i \in DOMAIN tasks[c] : tasks[c][i].why # "lagged"

\* -------------------------------------------------------------------- C9
\* C9 as stated: after a broadcast to a session, a topic for the session
\* exists in the registry.
C9_BroadcastCreatesTopic ==
    [][(Len(published') > Len(published)
        /\ published'[Len(published')].via \in {"broadcast", "cancel"})
       => published'[Len(published')].msg.session_id \in DOMAIN session_channels']_vars

\* C9 amended: a broadcast to a session that has no topic makes no send and
\* creates no topic; a topic enters the registry only in a step that gives a
\* connection a receiver (subscribe) or the producer a sender
\* (get_session_sender), never in a step that publishes.
C9_OnlySubscribeAndGetSenderCreate ==
    [][\A s \in Sessions :
          /\ (s \notin DOMAIN session_channels /\ Len(published') > Len(published)
              /\ published'[Len(published')].msg.session_id = s
              /\ published'[Len(published')].via \in {"broadcast", "cancel"})
             => /\ published'[Len(published')].sent = "none"
                /\ s \notin DOMAIN session_channels'
          /\ (s \notin DOMAIN session_channels /\ s \in DOMAIN session_channels')
             => /\ published' = published
                /\ \/ \E c \in Conns : LiveTasksIn(tasks', c, s) \ LiveTasksIn(tasks, c, s) # {}
                   \/ <<s, session_channels'[s]>> \in prodSenders' \ prodSenders]_vars

\* A broadcast has been made to a session nobody ever subscribed to or asked a
\* sender for, and the registry is still empty.
C9_Witness ==
    /\ \E k \in DOMAIN published : published[k].via = "broadcast" /\ published[k].sent = "none"
    /\ \A c \in Conns : tasks[c] = <<>>
    /\ prodSenders = {}
    /\ DOMAIN session_channels = {}

\* ------------------------------------------------------------------- C10
\* C10 as stated: a broadcast to a session with no subscriber reports no
\* error to its caller, and once a connection has been unregistered after a
\* publish that found the topic without receivers (the orphan reclaim has
\* run), the session, still without subscribers, has no topic in the registry.
C10_NoErrorNoResidualTopic ==
    [][/\ \A k \in DOMAIN published' :
             published'[k].via \in {"broadcast", "cancel"} => ~published'[k].err
       /\ (\E c \in DOMAIN connection_subscriptions : c \notin DOMAIN connection_subscriptions')
          => \A k \in DOMAIN published :
                (published[k].sent = "err"
                 /\ \A c \in Conns : LiveTasksFor(c, published[k].msg.session_id) = {})
                => published[k].msg.session_id \notin DOMAIN session_channels']_vars

\* C10 amended: a publish to a session with no subscriber changes the
\* registry in no way; made through broadcast it reports no error, made
\* through a sender of get_session_sender it returns the SendError of the
\* channel.  The topic of the session leaves the registry exactly in a step
\* that unregisters a connection whose subscription set holds the session
\* while the topic has no receiver.
C10_ReclaimOnlyByUnregister ==
    [][/\ (Len(published') > Len(published) /\ published'[Len(published')].sent # "ok")
          => /\ session_channels' = session_channels
             /\ connection_subscriptions' = connection_subscriptions
             /\ published'[Len(published')].err
                  = (published'[Len(published')].via = "sender")
       /\ \A s \in Sessions :
             (s \in DOMAIN session_channels /\ s \notin DOMAIN session_channels')
             <=> (/\ s \in DOMAIN session_channels
                  /\ ReceiverCount(session_channels[s]) = 0
                  /\ \E c \in DOMAIN connection_subscriptions :
                        /\ c \notin DOMAIN connection_subscriptions'
                        /\ s \in connection_subscriptions[c])]_vars

\* A publish found the topic of its session without receivers, and the topic
\* has since been reclaimed by the unregistration of a subscribed connection.
C10_Witness ==
    \E k \in DOMAIN published :
        /\ published[k].sent = "err"
        /\ published[k].msg.session_id \notin DOMAIN session_channels
        /\ \E c \in Conns : connState[c] = "closed" /\ TasksFor(c, published[k].msg.session_id) # {}

\* ------------------------------------------------------------------- C11
\* C11: a live subscription handle cannot yield, and the only handle of a
\* connection has not yielded, an event that was published before its
\* subscribe call returned; and every event published to its session through
\* broadcast after that is either still to be read by the handle or has been
\* passed on to its connection, as long as the handle is live, has not lagged
\* and the connection's outbound queue has not been closed.
C11_NoReplayThenEveryEvent ==
    \A c \in Conns : \A i \in DOMAIN tasks[c] :
        LET t == tasks[c][i]
        IN  Live(t)
            => \A k \in DOMAIN published :
                  LET e == published[k].msg
                  IN  /\ k <= t.since
                         => /\ ~Unread(c, i, e)
                            /\ Len(tasks[c]) = 1 => Copies(c, e) = 0
                      /\ (/\ k > t.since
                          /\ e.session_id = t.session
                          /\ published[k].via # "sender"
                          /\ t.why # "lagged"
                          /\ ~Lagging(chan[t.ch], t.next)
                          /\ senderState[c] # "gone")
                         => \/ Unread(c, i, e)
                            \/ PassedOn(c, e) > 0

\* A handle was subscribed while an earlier event of its session was still
\* retained in the channel for another handle: its cursor is past that event
\* and it has yielded nothing.
C11_Witness ==
    \E c \in Conns :
        /\ Len(tasks[c]) = 1
        /\ Live(tasks[c][1])
        /\ tasks[c][1].since = 1
        /\ published[1].sent = "ok"
        /\ published[1].msg.session_id = tasks[c][1].session
        /\ published[1].msg \in {chan[tasks[c][1].ch].buf[j] : j \in DOMAIN chan[tasks[c][1].ch].buf}
        /\ delivered[c] = <<>>

\* ------------------------------------------------------------------- C12
\* C12: register_connection for a connection id that already has a record
\* leaves every subscription set as it was.
C12_RegisterTwiceNoOp ==
    [][\A c \in Conns :
          (c \in DOMAIN connection_subscriptions /\ HubRegister(c))
          => connection_subscriptions' = connection_subscriptions]_vars

\* ------------------------------------------------------------------- C13
\* C13: when unregister_connection removes the record of a connection whose
\* subscription set holds S while no live handle on S exists, the topic of S
\* is out of the registry and has_subscribers(S) is false right after the call.
C13_UnregisterReclaimsOrphan ==
    [][\A c \in Conns : \A s \in Sessions :
          (/\ c \in DOMAIN connection_subscriptions
           /\ c \notin DOMAIN connection_subscriptions'
           /\ s \in connection_subscriptions[c]
           /\ \A d \in Conns : LiveTasksFor(d, s) = {})
          => /\ s \notin DOMAIN session_channels'
             /\ ~(has_subscribers(s))']_vars

\* A connection subscribed once, its handle was dropped, and it has been
\* unregistered while no other connection ever subscribed: S has no topic.
C13_Witness ==
    \E c \in Conns : \E s \in Sessions :
        /\ connState[c] = "closed"
        /\ c \notin DOMAIN connection_subscriptions
        /\ Cardinality(TasksFor(c, s)) = 1
        /\ LiveTasksFor(c, s) = {}
        /\ \A d \in Conns \ {c} : tasks[d] = <<>>
        /\ s \notin DOMAIN session_channels
        /\ ~has_subscribers(s)

\* ------------------------------------------------------------------- C14
\* C14: a step that unregisters connection A changes no forwarding task or
\* handle of any connection, and every session on which another connection B
\* holds a live handle keeps its topic, on the same channel with the same
\* contents, and still has subscribers: what is published to it afterwards
\* goes to the channel B reads.
C14_UnregisterSparesOthers ==
    [][\A a \in Conns :
          (a \in DOMAIN connection_subscriptions /\ a \notin DOMAIN connection_subscriptions')
          => /\ tasks' = tasks
             /\ \A b \in Conns \ {a} : \A i \in DOMAIN tasks[b] :
                   Live(tasks[b][i])
                   => /\ tasks[b][i].session \in DOMAIN session_channels'
                      /\ session_channels'[tasks[b][i].session] = tasks[b][i].ch
                      /\ chan'[tasks[b][i].ch] = chan[tasks[b][i].ch]
                      /\ (has_subscribers(tasks[b][i].session))']_vars

\* A, which shared S with B, has been unregistered; B's handle is live, S has
\* its topic, and B has been handed an event of S.
C14_Witness ==
    \E a, b \in Conns : \E s \in Sessions :
        /\ a # b
        /\ connState[a] = "closed"
        /\ a \notin DOMAIN connection_subscriptions
        /\ TasksFor(a, s) # {}
        /\ LiveTasksFor(b, s) # {}
        /\ s \in DOMAIN session_channels
        /\ \E k \in DOMAIN published :
              /\ published[k].msg.session_id = s
              /\ Occurrences(delivered[b], published[k].msg) = 1

\* ------------------------------------------------------------------- C15
\* C15: a step that takes S out of the subscription set of a connection that
\* stays registered changes that one set only and nothing else of the hub: the
\* registry, every channel, every handle and the producer's senders are as
\* before, so has_subscribers(S) is true after the step if it was before.
C15_UnsubscribeOnlyEditsSet ==
    [][\A c \in Conns : \A s \in Sessions :
          (/\ InSet(connection_subscriptions, c, s)
           /\ c \in DOMAIN connection_subscriptions'
           /\ ~InSet(connection_subscriptions', c, s))
          => /\ connection_subscriptions'
                  = [connection_subscriptions EXCEPT ![c] = @ \ {s}]
             /\ session_channels' = session_channels
             /\ tasks' = tasks
             /\ chan' = chan
             /\ prodSenders' = prodSenders
             /\ has_subscribers(s) => (has_subscribers(s))']_vars

\* After unsubscribe: the connection is registered, S is not in its set, its
\* handle is live, S has its topic and has_subscribers(S) is true.
C15_Witness ==
    \E c \in Conns : \E s \in Sessions :
        /\ connState[c] = "open"
        /\ c \in DOMAIN connection_subscriptions
        /\ s \notin connection_subscriptions[c]
        /\ Cardinality(LiveTasksFor(c, s)) = 1
        /\ s \in DOMAIN session_channels
        /\ has_subscribers(s)

\* ------------------------------------------------------------------- C16
\* C16: once a connection's Unsubscribe{S} has been processed and its
\* acknowledgement written, and the connection has not subscribed to S again,
\* an event published to S does not become readable by any forwarding task of
\* that connection (so it is never delivered to it).
C16_NoDeliveryAfterUnsubscribe ==
    [][\A c \in Conns : \A s \in Sessions :
          (/\ Len(published') > Len(published)
           /\ published'[Len(published')].msg.session_id = s
           /\ connState[c] = "open"
           /\ c \in DOMAIN connection_subscriptions
           /\ s \notin connection_subscriptions[c]
           /\ pendingAck[c] = None
           /\ Occurrences(outq[c], Unsubscribed(s)) = 0
           /\ Occurrences(delivered[c], Unsubscribed(s)) > 0)
          => (Pending(c, published[Len(published)].msg) = 0)']_vars

\* ------------------------------------------------------------------- C17
\* C17: in every state has_subscribers(S) is true exactly when some
\* connection holds a live subscription handle for S.
C17_HasSubscribersIffLiveHandle ==
    \A s \in Sessions :
        has_subscribers(s) <=> \E c \in Conns : LiveTasksFor(c, s) # {}

\* S has a topic whose only handle has been dropped (has_subscribers is false
\* with the topic present) while a producer holds a sender of it.
C17_Witness ==
    \E s \in Sessions :
        /\ s \in DOMAIN session_channels
        /\ <<s, session_channels[s]>> \in prodSenders
        /\ \E c \in Conns : TasksFor(c, s) # {}
        /\ \A c \in Conns : LiveTasksFor(c, s) = {}
        /\ ~has_subscribers(s)

\* ---------------------------------------------- acknowledgements in flight
\* The copies of envelope m the command loop of c has issued and that have not
\* been lost: the one it is sending, those queued, the one the sender task is
\* writing, those written.
Issued(c, m) ==
    (IF pendingAck[c] = m THEN 1 ELSE 0) + Occurrences(outq[c], m)
        + (IF writing[c] = m THEN 1 ELSE 0) + Occurrences(delivered[c], m)

\* The part of the state that belongs to the hub and to the forwarding tasks.
hubVars == <<session_channels, connection_subscriptions, chan, prodSenders, tasks, published>>

\* The send of the command loop of c completes on an open queue: the envelope
\* it was sending is the new tail of the queue.
AckEnqueued(c) ==
    (FlushAck(c) /\ RxOpen(c))
    => /\ outq'[c] = Append(outq[c], pendingAck[c])
       /\ pendingAck'[c] = None

\* The outbound side of connection c.
Outbound(c) == <<pendingAck[c], outq[c], writing[c], delivered[c], senderState[c]>>

\* ------------------------------------------------------------------- C18
\* C18: a text frame that does not decode issues exactly one Error envelope to
\* its connection, which enters the queue when the send completes on an open
\* queue; a step that issues an Error envelope to c issues one, changes no
\* hub state and no other connection's outbound side, and leaves c open with
\* its command loop at the send of that envelope, after which it reads on.
C18_MalformedYieldsOneError ==
    [][\A c \in Conns :
          /\ ClientMalformed(c) => Issued(c, ErrorMsg)' = Issued(c, ErrorMsg) + 1
          /\ AckEnqueued(c)
          /\ (FlushAck(c) /\ connState[c] = "open") => (Reading(c))'
          /\ Issued(c, ErrorMsg)' > Issued(c, ErrorMsg)
             => /\ Issued(c, ErrorMsg)' = Issued(c, ErrorMsg) + 1
                /\ hubVars' = hubVars
                /\ \A d \in Conns \ {c} : Outbound(d)' = Outbound(d)
                /\ connState' = connState
                /\ connState[c] = "open"
                /\ pendingAck'[c] = ErrorMsg]_vars

\* A connection was written the Error envelope of a malformed frame and, after
\* it, the acknowledgement of a Subscribe it sent next, whose task is running.
C18_Witness ==
    \E c \in Conns : \E s \in Sessions :
        /\ delivered[c] = <<ErrorMsg, Subscribed(s)>>
        /\ connState[c] = "open"
        /\ InSet(connection_subscriptions, c, s)
        /\ LiveTasksFor(c, s) # {}

\* ------------------------------------------------------------------- C19
\* C19: a Ping frame issues exactly one Pong envelope to its connection, which
\* enters the queue when the send completes on an open queue; a step that
\* issues a Pong to c issues one and
\* changes neither the registry, nor any subscription set, channel or
\* forwarding task, nor the outbound side of any other connection, nor the
\* state of any connection.
C19_PingYieldsOnePong ==
    [][\A c \in Conns :
          /\ ClientPing(c) => Issued(c, Pong)' = Issued(c, Pong) + 1
          /\ (FlushAck(c) /\ RxOpen(c) /\ pendingAck[c] = Pong)
             => outq'[c] = Append(outq[c], Pong)
          /\ Issued(c, Pong)' > Issued(c, Pong)
             => /\ Issued(c, Pong)' = Issued(c, Pong) + 1
                /\ \A m \in {ErrorMsg} \cup {Subscribed(s) : s \in Sessions}
                          \cup {Unsubscribed(s) : s \in Sessions} :
                      Issued(c, m)' = Issued(c, m)
                /\ hubVars' = hubVars
                /\ \A d \in Conns \ {c} : Outbound(d)' = Outbound(d)
                /\ connState' = connState]_vars

\* A connection that sent one Ping and nothing else has been written one Pong,
\* and nothing in the hub has changed since it connected.
C19_Witness ==
    \E c \in Conns :
        /\ delivered[c] = <<Pong>>
        /\ outq[c] = <<>>
        /\ pendingAck[c] = None
        /\ connState[c] = "open"
        /\ connection_subscriptions[c] = {}
        /\ tasks[c] = <<>>
        /\ DOMAIN session_channels = {}

\* ------------------------------------------------------------------- C20
\* C20: a Subscribe{S} frame handled on an open connection c issues exactly
\* one Subscribed{S} to c, which enters the queue when the send completes on
\* an open queue, published events or not, and appends to c's forwarding tasks one live task that reads a
\* receiver of the channel the registry holds for S; a step that issues
\* Subscribed{S} to c issues one and none to another connection; and an event
\* enters the outbound queue of a connection only from a forwarding task of
\* that connection that had read it.
C20_SubscribeAcksAndStartsTask ==
    [][\A c \in Conns : \A s \in Sessions :
          /\ ClientSubscribe(c, s)
             => /\ Issued(c, Subscribed(s))' = Issued(c, Subscribed(s)) + 1
                /\ Len(tasks'[c]) = Len(tasks[c]) + 1
                /\ SubSeq(tasks'[c], 1, Len(tasks[c])) = tasks[c]
                /\ LET t == tasks'[c][Len(tasks'[c])]
                   IN  /\ t.session = s
                       /\ t.st = "recv"
                       /\ t.ch = session_channels'[s]
                /\ \A d \in Conns \ {c} : tasks'[d] = tasks[d]
          /\ Issued(c, Subscribed(s))' > Issued(c, Subscribed(s))
             => /\ Issued(c, Subscribed(s))' = Issued(c, Subscribed(s)) + 1
                /\ \A d \in Conns \ {c} : Outbound(d)' = Outbound(d)
          /\ (FlushAck(c) /\ RxOpen(c) /\ pendingAck[c] = Subscribed(s))
             => outq'[c] = Append(outq[c], Subscribed(s))
          /\ \A k \in DOMAIN published :
                Occurrences(outq'[c], published[k].msg) > Occurrences(outq[c], published[k].msg)
                => \E i \in DOMAIN tasks[c] :
                      /\ tasks[c][i].st = "send"
                      /\ tasks[c][i].msg = published[k].msg
                      /\ tasks'[c][i].st = "recv"]_vars

\* No event has been published: the connection has been written its one
\* Subscribed{S}, and its forwarding task is waiting on the receiver.
C20_Witness ==
    \E c \in Conns : \E s \in Sessions :
        /\ published = <<>>
        /\ delivered[c] = <<Subscribed(s)>>
        /\ outq[c] = <<>>
        /\ pendingAck[c] = None
        /\ Len(tasks[c]) = 1
        /\ tasks[c][1].session = s
        /\ tasks[c][1].st = "recv"
        /\ tasks[c][1].ch = session_channels[s]

\* ------------------------------------------------------------------- C21
\* C21: for every Status event published by a Cancel command, every open
\* connection that has the session in its subscription set and subscribed
\* before the Cancel never has more than one copy of the event (unread, held
\* by a task, queued or written), and has one as long as its forwarding tasks
\* are live and have not lagged and its outbound side is running.
C21_CancelReachesSubscribersOnce ==
    \A k \in DOMAIN published : \A c \in Conns :
        LET e == published[k].msg
            mine == TasksFor(c, e.session_id)
        IN  (/\ published[k].via = "cancel"
             /\ connState[c] = "open"
             /\ InSet(connection_subscriptions, c, e.session_id)
             /\ mine # {}
             /\ \A i \in mine : tasks[c][i].since < k)
            => /\ Copies(c, e) <= 1
               /\ (/\ senderState[c] = "running"
                   /\ \A i \in mine :
                         /\ Live(tasks[c][i])
                         /\ ~Lagging(chan[tasks[c][i].ch], tasks[c][i].next))
                  => Copies(c, e) = 1

\* ------------------------------------------------------------------- C22
\* C22: whenever the sender task of an open connection has ended because a
\* write to the transport failed, the connection is eventually closed (its
\* cleanup, with unregister_connection, has run), whether or not the inbound
\* stream ends.
C22_SendFailureLeadsToClosed ==
    \A c \in Conns :
        (senderState[c] = "gone" /\ connState[c] = "open") ~> (connState[c] = "closed")

\* ------------------------------------------------------------------- C23
\* The outbound path of connection a is stalled or has failed: its queue is
\* full, or its sender task has ended and dropped the queue.
Stalled(a) == senderState[a] = "gone" \/ Len(outq[a]) >= OUTBOUND_CAPACITY

\* C23: while connection A, which has a forwarding task on session S, is
\* stalled, broadcast to S can still be called and completes, and every event
\* of S published since another connection B subscribed is unread by B's
\* forwarding task or has been passed on to B, as long as B's task is live and
\* has not lagged and B's own sender task is running.
C23_StalledPeerIsolated ==
    \A a \in Conns : \A s \in Sessions :
        (Stalled(a) /\ LiveTasksFor(a, s) # {})
        => /\ (MuxCalls < MaxCalls /\ Len(published) < MaxPublish)
              => \A stream \in Streams : ENABLED Broadcast(s, stream)
           /\ \A b \in Conns \ {a} : \A i \in LiveTasksFor(b, s) :
                 \A k \in DOMAIN published :
                    LET e == published[k].msg
                    IN  (/\ k > tasks[b][i].since
                         /\ e.session_id = s
                         /\ ~Lagging(chan[tasks[b][i].ch], tasks[b][i].next)
                         /\ senderState[b] = "running")
                        => \/ Unread(b, i, e)
                           \/ PassedOn(b, e) > 0

\* A's sender task has failed and A's forwarding task on S is still live with
\* an event of S unread; B, subscribed to S as well, has been written that
\* event.
C23_Witness ==
    \E a, b \in Conns : \E s \in Sessions : \E k \in DOMAIN published :
        /\ a # b
        /\ senderState[a] = "gone"
        /\ connState[a] = "open"
        /\ \E i \in LiveTasksFor(a, s) : Unread(a, i, published[k].msg)
        /\ connState[b] = "open"
        /\ Occurrences(delivered[b], published[k].msg) = 1

C25_UnsubscribeUnknownIsNoOp ==
    [][\A c \in Conns : \A s \in Sessions :
          (ClientUnsubscribe(c, s) /\ TasksFor(c, s) = {})
          => /\ Issued(c, Unsubscribed(s))' = Issued(c, Unsubscribed(s)) + 1
             /\ pendingAck'[c] = Unsubscribed(s)
             /\ Issued(c, ErrorMsg)' = Issued(c, ErrorMsg)
             /\ hubVars' = hubVars
             /\ \A d \in Conns \ {c} : Outbound(d)' = Outbound(d)
             /\ connState' = connState
             /\ (RxOpen(c) /\ Len(outq[c]) < OUTBOUND_CAPACITY)
                => (ENABLED FlushAck(c))']_vars

\* A connection that never subscribed has been written Unsubscribed{S} and
\* nothing else, and the hub holds no topic and no subscription.
C25_Witness ==
    \E c \in Conns : \E s \in Sessions :
        /\ delivered[c] = <<Unsubscribed(s)>>
        /\ tasks[c] = <<>>
        /\ connState[c] = "open"
        /\ connection_subscriptions[c] = {}
        /\ DOMAIN session_channels = {}

\* ------------------------------------------------------------------- C26
\* C26: get_session_sender is idempotent.  No step replaces the channel of a
\* topic that stays in the registry; get-or-create on a session that has a
\* topic yields that topic's channel and leaves the registry as it is; and a
\* get_session_sender step hands the producer exactly one handle, to the
\* channel the registry holds for the session, changing no channel content.
C26_GetSessionSenderIdempotent ==
    [][\A s \in Sessions :
          /\ (s \in DOMAIN session_channels /\ s \in DOMAIN session_channels')
             => session_channels'[s] = session_channels[s]
          /\ s \in DOMAIN session_channels
             => /\ ChannelOf(s) = session_channels[s]
                /\ ChannelsAfterGetOrCreate(s) = session_channels
          /\ GetSessionSender(s)
             => /\ prodSenders' = prodSenders \cup {<<s, session_channels'[s]>>}
                /\ s \in DOMAIN session_channels => session_channels' = session_channels
                /\ chan' = chan /\ tasks' = tasks]_vars

\* The producer holds a handle to the channel the registry has for the
\* session, a subscriber listens on it, and a value sent through the handle
\* was accepted.
C26_Witness ==
    \E s \in Sessions :
        /\ s \in DOMAIN session_channels
        /\ <<s, session_channels[s]>> \in prodSenders
        /\ ReceiverCount(session_channels[s]) > 0
        /\ Len(published) > 0
        /\ published[Len(published)].via = "sender"
        /\ published[Len(published)].sent = "ok"

\* ------------------------------------------------------------------- C27
\* C27: a topic stays in the registry while a producer holds a sender handle
\* obtained from get_session_sender for it: every handle the producer holds
\* names the channel the registry currently has for its session.
C27_HeldTopicNeverRemoved ==
    \A h \in prodSenders :
        /\ h[1] \in DOMAIN session_channels
        /\ session_channels[h[1]] = h[2]

\* ------------------------------------------------------------------- C28
\* C28: no channel ever retains more than CHANNEL_CAPACITY values, however
\* many values are published and whether or not its receivers read.
C28_BufferBounded ==
    \A id \in ChanIds : Len(chan[id].buf) <= CHANNEL_CAPACITY

\* More values than the capacity were accepted on a topic one of whose
\* receivers has read nothing, and the channel is full.
C28_Witness ==
    \E c \in Conns : \E i \in DOMAIN tasks[c] :
        /\ Live(tasks[c][i])
        /\ tasks[c][i].next = 0
        /\ chan[tasks[c][i].ch].pos > CHANNEL_CAPACITY
        /\ Len(chan[tasks[c][i].ch].buf) = CHANNEL_CAPACITY

\* ------------------------------------------------------------------- C29
\* The envelopes of connection c in the order in which they were enqueued:
\* those written to the transport, the one the sender task holds, and those
\* still in the queue.
Enqueued(c) ==
    delivered[c] \o (IF writing[c] = None THEN <<>> ELSE <<writing[c]>>) \o outq[c]

\* C29: every envelope for a connection passes through its one outbound
\* queue.  The sender task of c takes one envelope at a time, the one at the
\* head of c's queue (the oldest of those queued, also when several are
\* queued), and a step that writes to the transport of c writes exactly the
\* envelope the sender task took; any other step that changes the queue
\* either appends one whole envelope at its tail (the one the command loop
\* or a forwarding task of c was sending) or is the end of the sender task,
\* which drops the queue.  Hence the envelopes are written in the order in
\* which they were enqueued: the sequence written-held-queued of c only ever
\* grows by one envelope at its end, or loses its unwritten part when the
\* sender task ends.
C29_OutboundFifo ==
    [][\A c \in Conns :
          LET take == writing[c] = None /\ writing'[c] # None
          IN  /\ take
                 => /\ outq[c] # <<>>
                    /\ writing'[c] = Head(outq[c])
                    /\ outq'[c] = Tail(outq[c])
                    /\ delivered'[c] = delivered[c]
              /\ writing'[c] # writing[c] => take \/ writing'[c] = None
              /\ delivered'[c] # delivered[c]
                 => /\ writing[c] # None
                    /\ delivered'[c] = Append(delivered[c], writing[c])
                    /\ writing'[c] = None
                    /\ outq'[c] = outq[c]
              /\ (outq'[c] # outq[c] /\ ~take)
                 => \/ /\ Len(outq'[c]) = Len(outq[c]) + 1
                       /\ SubSeq(outq'[c], 1, Len(outq[c])) = outq[c]
                       /\ outq'[c][Len(outq'[c])] # None
                       /\ writing'[c] = writing[c]
                       /\ \/ outq'[c][Len(outq'[c])] = pendingAck[c]
                          \/ \E i \in DOMAIN tasks[c] :
                                outq'[c][Len(outq'[c])] = tasks[c][i].msg
                    \/ /\ outq'[c] = <<>>
                       /\ writing'[c] = None
                       /\ senderState'[c] = "gone"
              /\ \/ Enqueued(c)' = Enqueued(c)
                 \/ /\ Len(Enqueued(c)') = Len(Enqueued(c)) + 1
                    /\ SubSeq(Enqueued(c)', 1, Len(Enqueued(c))) = Enqueued(c)
                 \/ /\ Enqueued(c)' = delivered[c]
                    /\ senderState'[c] = "gone"]_vars

\* After an earlier envelope was written to c, two different envelopes are
\* queued together for c, an acknowledgement ahead of a forwarded event, and
\* the sender task is about to take one of them.
C29_Witness ==
    \E c \in Conns :
        /\ RxOpen(c)
        /\ delivered[c] # <<>>
        /\ writing[c] = None
        /\ Len(outq[c]) = 2
        /\ ~IsEvent(outq[c][1])
        /\ IsEvent(outq[c][2])

\* ------------------------------------------------------------------- C30
\* The tag the wire uses for each variant.
WireTag(v) ==
    CASE v = "Subscribe" -> "subscribe" [] v = "Unsubscribe" -> "unsubscribe"
      [] v = "Cancel" -> "cancel" [] v = "Ping" -> "ping"
      [] v = "Subscribed" -> "subscribed" [] v = "Unsubscribed" -> "unsubscribed"
      [] v = "Output" -> "output" [] v = "Status" -> "status"
      [] v = "Error" -> "error" [] v = "Pong" -> "pong"

\* C30: every command is encoded as one record whose "type" is the
\* snake_case name of its variant and whose other fields are the variant's
\* fields, and decoding that record gives the command back, so a text frame
\* carrying the encoding of a command is handled as that command; every event
\* carries the snake_case name of its variant as its tag, and so does every
\* envelope queued for or written to a connection.
C30_CodecLaws ==
    /\ \A cmd \in Commands :
          /\ DOMAIN Encode(cmd) = {"type"} \cup ClientFields(cmd.variant)
          /\ Encode(cmd)["type"] = WireTag(cmd.variant)
          /\ Decode(Encode(cmd)) = cmd
          /\ EncodeTable[cmd] = Encode(cmd)
          /\ Decoded(Encode(cmd)) = cmd
    /\ \A v \in ServerVariants : ServerTag[v] = WireTag(v)
    /\ \A s \in Sessions :
          /\ Subscribed(s).type = "subscribed"
          /\ Unsubscribed(s).type = "unsubscribed"
          /\ \A stream \in Streams : Output(s, stream, 1).type = "output"
          /\ Status(s, "cancelled", 1).type = "status"
    /\ ErrorMsg.type = "error"
    /\ Pong.type = "pong"
C30_ServerTags == {WireTag(v) : v \in ServerVariants}
C30_TaggedRecordsRoundTrip ==
    [][/\ C30_CodecLaws
       /\ \A c \in Conns :
             /\ frames' # frames
                => \A cmd \in Commands : TextFrame(c, EncodeTable[cmd]) <=> Dispatch(c, cmd)
             /\ \A i \in DOMAIN outq'[c] : outq'[c][i].type \in C30_ServerTags
             /\ \A i \in DOMAIN delivered'[c] : delivered'[c][i].type \in C30_ServerTags]_vars

\* A Subscribe frame was decoded and acknowledged, a frame that does not
\* decode was answered, and both envelopes were written with their tags.
C30_Witness ==
    \E c \in Conns : \E s \in Sessions :
        /\ \E i \in DOMAIN delivered[c] :
              delivered[c][i] = Subscribed(s) /\ delivered[c][i].type = "subscribed"
        /\ \E i \in DOMAIN delivered[c] :
              delivered[c][i] = ErrorMsg /\ delivered[c][i].type = "error"
        /\ \E i \in DOMAIN tasks[c] : tasks[c][i].session = s

\* ------------------------------------------------------------------- C31
\* C31: no live subscription handle refers to a topic that is no longer in the
\* registry: the channel of every live handle is the channel the registry
\* holds for the handle's session, under every interleaving of subscribe,
\* unsubscribe and unregister_connection calls of different connections.
C31_LiveHandleOnRegisteredTopic ==
    \A c \in Conns : \A i \in DOMAIN tasks[c] :
        Live(tasks[c][i])
        => /\ tasks[c][i].session \in DOMAIN session_channels
           /\ session_channels[tasks[c][i].session] = tasks[c][i].ch

\* A connection that had subscribed to a session was unregistered while
\* another connection holds a live handle of the same session: the topic is
\* still registered and the handle is on it.
C31_Witness ==
    \E c, d \in Conns : \E s \in Sessions :
        /\ c # d
        /\ connState[c] = "closed"
        /\ c \notin DOMAIN connection_subscriptions
        /\ TasksFor(c, s) # {}
        /\ LiveTasksFor(d, s) # {}
        /\ s \in DOMAIN session_channels

\* ------------------------------------------------------------------- C34
\* C34: when subscribe(c, S) returns for a connection c that has a record, S
\* is in c's subscription set, S has a topic in the registry - the one it had
\* before if it had one, everything else in the registry being as it was -
\* the returned handle is live on that topic and has_subscribers(S) is true.
C34_SubscribePostcondition ==
    [][\A c \in Conns : \A s \in Sessions :
          (HubSubscribe(c, s) /\ c \in DOMAIN connection_subscriptions)
          => /\ InSet(connection_subscriptions', c, s)
             /\ s \in DOMAIN session_channels'
             /\ \A x \in DOMAIN session_channels :
                   x \in DOMAIN session_channels' /\ session_channels'[x] = session_channels[x]
             /\ DOMAIN session_channels' = DOMAIN session_channels \cup {s}
             /\ Len(tasks'[c]) = Len(tasks[c]) + 1
             /\ Live(tasks'[c][Len(tasks'[c])])
             /\ tasks'[c][Len(tasks'[c])].ch = session_channels'[s]
             /\ (has_subscribers(s))']_vars

\* Two registered connections hold live handles on the one topic of a
\* session, which is in both subscription sets: the second subscribe reused
\* the topic.
C34_Witness ==
    \E s \in Sessions :
        /\ \A c \in Conns :
              /\ InSet(connection_subscriptions, c, s)
              /\ \E i \in DOMAIN tasks[c] :
                    Live(tasks[c][i]) /\ tasks[c][i].ch = session_channels[s]
        /\ has_subscribers(s)

\* ------------------------------------------------------------------- C35
\* C35: subscribe(c, S) for a connection c that has no record leaves every
\* subscription set and the set of records as they were, yet S has a topic
\* afterwards and the returned handle is live on it; and for a connection
\* without a record unregister_connection examines no session, so it removes
\* no topic.
C35_SubscribeWithoutRecord ==
    [][\A c \in Conns :
          c \notin DOMAIN connection_subscriptions
          => /\ Orphans(c) = {}
             /\ ChannelsAfterUnregister(c) = session_channels
             /\ HubUnregister(c) => session_channels' = session_channels
             /\ \A s \in Sessions :
                   HubSubscribe(c, s)
                   => /\ connection_subscriptions' = connection_subscriptions
                      /\ s \in DOMAIN session_channels'
                      /\ Live(tasks'[c][Len(tasks'[c])])
                      /\ tasks'[c][Len(tasks'[c])].ch = session_channels'[s]
                      /\ Orphans(c)' = {}]_vars

\* A connection that was never registered holds the only live handle of a
\* session's topic and appears in no record.
C35_Witness ==
    \E c \in Conns : \E s \in Sessions :
        /\ connState[c] = "idle"
        /\ DOMAIN connection_subscriptions = {}
        /\ LiveTasksFor(c, s) # {}
        /\ s \in DOMAIN session_channels
        /\ ReceiverCount(session_channels[s]) = Cardinality(LiveTasksFor(c, s))

\* ------------------------------------------------------------------- C37
\* C37: for a connection without a record unregister_connection leaves the
\* topic registry and every subscription set as they are; and right after an
\* unregister_connection(c) the connection has no record, so a second call
\* would change nothing.
C37_UnregisterIdempotent ==
    [][\A c \in Conns :
          /\ c \notin DOMAIN connection_subscriptions
             => /\ ChannelsAfterUnregister(c) = session_channels
                /\ SubsAfterUnregister(c) = connection_subscriptions
          /\ HubUnregister(c)
             => /\ c \notin DOMAIN connection_subscriptions'
                /\ ChannelsAfterUnregister(c)' = session_channels'
                /\ SubsAfterUnregister(c)' = connection_subscriptions']_vars

\* A connection was unregistered while another connection's set names a
\* session whose topic has no receiver: a topic a second unregister of the
\* first connection must leave alone.
C37_Witness ==
    \E c, d \in Conns : \E s \in Sessions :
        /\ c # d
        /\ connState[c] = "closed"
        /\ c \notin DOMAIN connection_subscriptions
        /\ InSet(connection_subscriptions, d, s)
        /\ s \in DOMAIN session_channels
        /\ ReceiverCount(session_channels[s]) = 0

\* ------------------------------------------------------------------- C38
\* C38: a forwarding task ends only in a step of its own: a recv that finds
\* the receiver lagged beyond the capacity or the channel without a sender, or
\* a send into an outbound queue whose reader is gone.  An Unsubscribe frame
\* and the cleanup of a closing connection (unregister_connection) end no
\* task, and the step in which a task ends changes no subscription set.
C38_TaskEndsOnlyOnError ==
    [][\A c \in Conns :
          /\ \A i \in DOMAIN tasks[c] :
                (Live(tasks[c][i]) /\ ~Live(tasks'[c][i]))
                => /\ \/ /\ ForwardRecv(c, i)
                         /\ \/ Lagging(chan[tasks[c][i].ch], tasks[c][i].next)
                            \/ SenderCountIn(session_channels, prodSenders, tasks[c][i].ch) = 0
                         /\ tasks'[c][i].why \in {"lagged", "closed"}
                      \/ /\ ForwardSend(c, i)
                         /\ ~RxOpen(c)
                         /\ tasks'[c][i].why = "sendfail"
                   /\ connection_subscriptions' = connection_subscriptions
          /\ (Close(c) \/ Unregister(c) \/ \E s \in Sessions : ClientUnsubscribe(c, s))
             => tasks' = tasks]_vars

\* A forwarding task ended because its receiver lagged, and its session is
\* still in the set of its connection, which is open.
C38_Witness ==
    \E c \in Conns : \E i \in DOMAIN tasks[c] :
        /\ tasks[c][i].why = "lagged"
        /\ connState[c] = "open"
        /\ InSet(connection_subscriptions, c, tasks[c][i].session)

\* ------------------------------------------------------------------- C39
\* C39: a frame that is neither a text frame nor a close frame changes no hub
\* state, emits no envelope to any connection and leaves every connection's
\* state as it was, its own connection being open.  A close frame (or the end
\* of the inbound stream) ends the command loop of an open connection: the
\* connection is closing, no further frame of it is handled and its
\* unregister_connection call can be made; the call does what
\* unregister_connection does and closes the connection; a closed connection
\* stays closed and without a record, so there is no second call.
C39_OtherFramesIgnoredCloseUnregisters ==
    [][\A c \in Conns :
          /\ ClientOther(c)
             => /\ connState[c] = "open"
                /\ hubVars' = hubVars
                /\ \A d \in Conns : Outbound(d)' = Outbound(d)
                /\ connState' = connState
          /\ Close(c)
             => /\ connState[c] = "open"
                /\ connState'[c] = "closing"
                /\ hubVars' = hubVars
                /\ (ENABLED Unregister(c))'
          /\ connState[c] = "closing"
             => /\ connState'[c] \in {"closing", "closed"}
                /\ ~(Reading(c))'
                /\ connState'[c] = "closed" <=> Unregister(c)
                /\ ~Unregister(c)
                   => /\ c \in DOMAIN connection_subscriptions'
                      /\ connection_subscriptions'[c] = connection_subscriptions[c]
          /\ Unregister(c)
             => /\ connState[c] = "closing"
                /\ connection_subscriptions' = SubsAfterUnregister(c)
                /\ session_channels' = ChannelsAfterUnregister(c)
          /\ connState[c] = "closed"
             => /\ connState'[c] = "closed"
                /\ c \notin DOMAIN connection_subscriptions'
                /\ ~Close(c) /\ ~Unregister(c)]_vars

\* One connection is open, frames were read from it, and no envelope was ever
\* issued and nothing was published: the frames were ignored.
C39_Witness ==
    \E c \in Conns :
        /\ frames > 0
        /\ connState[c] = "open"
        /\ \A d \in Conns \ {c} : connState[d] = "idle"
        /\ senderState[c] = "running"
        /\ pendingAck[c] = None /\ outq[c] = <<>> /\ delivered[c] = <<>>
        /\ published = <<>>
        /\ connection_subscriptions = [x \in {c} |-> {}]
        /\ DOMAIN session_channels = {}
        /\ tasks[c] = <<>>

\* ------------------------------------------------------------------- C32
\* The methods that change the structure of the hub.
Mutations == {"register_connection", "unregister_connection", "subscribe", "unsubscribe",
              "get_session_sender"}

\* C32: a caller that is inside a structural mutation holds the only guard of
\* the lock: no other mutation and no reader is inside the hub with it.
\* Readers are admitted next to readers: while only broadcast and
\* has_subscribers calls are inside and no call is queued, a further reader
\* that is ready to call is granted its guard.  For every call that is inside
\* the hub the registry is still what the call found when its guard was
\* granted: no write of another call falls between the beginning and the
\* end of a call, whatever else runs meanwhile, so the calls act on the
\* registry as if each ran as a whole, in the order in which they return.
C32_MutationsExclusiveReadersShared ==
    /\ \A h \in lock : h.op \in Mutations => lock = {h}
    /\ \A h \in lock : h.who \in DOMAIN seen /\ seen[h.who] = Registry
    /\ \A who \in Callers : \A s \in Sessions : \A op \in HubOps \ Mutations :
          (/\ ~InCall(who)
           /\ CanCall(who, op, s)
           /\ waiters = <<>>
           /\ \A h \in lock : h.op \notin Mutations)
          => ENABLED LockAcquire(who, op, s)

\* Two readers are inside the hub at once, on a session that has a topic.
C32_Witness ==
    /\ Cardinality(lock) >= 2
    /\ \A h \in lock : h.op \notin Mutations
    /\ \E h \in lock : h.op = "broadcast" /\ h.session \in DOMAIN session_channels

\* ------------------------------------------------------------------- C33
\* C33: a command loop that is at the send of an acknowledgement, suspended
\* on its full outbound queue or not, holds no guard of the hub's lock, and
\* only callers of hub methods ever hold one: no forwarding task and no
\* sender task does.
C33_NoGuardAcrossSend ==
    /\ \A c \in Conns : pendingAck[c] # None => ~InCall(c)
    /\ \A h \in InHub : h.who \in Callers /\ h.op \in HubOps

\* A command loop is suspended sending Subscribed into its full outbound
\* queue, in which the Pong it sent for an earlier Ping frame still waits,
\* while another caller is inside the hub.
C33_Witness ==
    \E c \in Conns : \E s \in Sessions :
        /\ pendingAck[c] = Subscribed(s)
        /\ Len(outq[c]) >= OUTBOUND_CAPACITY
        /\ \E i \in DOMAIN outq[c] : outq[c][i] = Pong
        /\ lock # {}

\* ------------------------------------------------------------------- C36
\* C36: a broadcast call (of the producer or of a Cancel frame) and a
\* has_subscribers call leave the registry of topics and every connection's
\* subscription set exactly as they were, whether or not the session has a
\* topic or a receiver.
C36_ReadersLeaveStructure ==
    [][\A h \in lock :
          (LockedRun(h) /\ h.op \in {"broadcast", "has_subscribers"})
          => /\ session_channels' = session_channels
             /\ connection_subscriptions' = connection_subscriptions]_vars

\* A publish found no topic, a later one found a topic without a receiver,
\* and a has_subscribers call is inside the hub.
C36_Witness ==
    /\ \E k \in DOMAIN published : published[k].sent = "none"
    /\ \E k \in DOMAIN published : published[k].sent = "err"
    /\ \E h \in lock : h.op = "has_subscribers"

====
